---- MODULE Spec2Model ----
(***************************************************************************)
(* DownloadManager of src/web/core/downloader.py as a state machine.       *)
(*                                                                         *)
(* The manager runs on one asyncio event loop: code between two awaits     *)
(* that suspend is one atomic step.  Each action below is one such run of  *)
(* code, from the point where a coroutine is resumed to the point where it *)
(* suspends again (or returns).  The awaits that suspend are: a progress   *)
(* callback (a coroutine such as routes.progress_callback that sends on a  *)
(* socket), the HTTP connect, a chunk read, the file close in the          *)
(* cancellation clean-up, the context-manager exits, asyncio.gather in     *)
(* stop() and the bounded wait on the queue.  Queue.put on the unbounded   *)
(* queue and the *_nowait calls do not suspend.  The item returned by      *)
(* queue.get() is handed to _download_file in the step that dequeues it.   *)
(***************************************************************************)
EXTENDS Integers, Sequences, FiniteSets, TLC

\* ------------------------------------------------------------------ bounds
MaxTasks == 2
PoolTasks == 3
MaxChunks == 1
MaxWorkers == 1
MaxSpawn == 2
MaxDecoded == 2
HistoryTasks == 11
MaxSockets == 3
MaxNameLen == 2
MaxEvents == 2
MaxFailures == 2
MaxDigits == 2
MaxEncoded == 3
\* episodes of one get_episode_links_batch call
MaxResolutions == 2

\* ------------------------------------------------------- values and inputs
None == "None"
Terminal == {"completed", "stopped", "failed"}
IllegalChars == {"<", ">", ":", "\"", "/", "\\", "|", "?", "*"}
Callbacks == {"ws"}

\* add_task arguments: url, anime_title (characters), episode (integer part,
\* tenths), resolution, optional filename (None: use the default pattern)
Requests ==
  { [url |-> "u1", anime_title |-> <<"A">>, episode |-> <<1, 0>>,
     resolution |-> 720, filename |-> None],
    [url |-> "u2", anime_title |-> <<"B", ":">>, episode |-> <<2, 5>>,
     resolution |-> 1080, filename |-> <<"c", ".", "mp4">>] }

\* what the server answers for a url: the filename="..." of its
\* Content-Disposition header (None: no such header) and its Content-Length
\* (0: header absent)
Responses ==
  { [url |-> "u1", name |-> None, length |-> MaxChunks],
    [url |-> "u2", name |-> <<"s", "/", "v">>, length |-> 0] }

\* ----------------------------------------------------------- pure helpers
_sanitize_filename(filename) ==
  SelectSeq(filename, LAMBDA c : c \notin IllegalChars)

Digit(n) == <<"0", "1", "2", "3", "4", "5", "6", "7", "8", "9">>[n + 1]

\* str(resolution) for the resolutions in use
ResolutionText(resolution) == IF resolution = 720 THEN "720" ELSE "1080"

\* f"EP{int(episode):02d}_{resolution}p.mp4"
DefaultFilename(episode, resolution) ==
  LET n == episode[1]
  IN  <<"E", "P">>
      \o (IF n < 10 THEN <<"0", Digit(n)>> ELSE <<Digit(n \div 10), Digit(n % 10)>>)
      \o <<"_", ResolutionText(resolution), "p", ".", "mp4">>

\* os.path.join(self.download_path, safe_title) and join(folder, filename)
_get_anime_folder(anime_title) == _sanitize_filename(anime_title)
FilePath(t) == <<_get_anime_folder(t.anime_title), t.filename>>

RECURSIVE Split(_, _, _)
\* the components of a path: s cut at every "/" (cur: the component being
\* read, acc: the components read so far)
Split(s, cur, acc) ==
  IF s = <<>> THEN Append(acc, cur)
  ELSE IF Head(s) = "/" THEN Split(Tail(s), <<>>, Append(acc, cur))
  ELSE Split(Tail(s), Append(cur, Head(s)), acc)

\* components that name a directory that exists whatever the folder is
DirNames == {<<>>, <<".">>, <<".", ".">>}

\* aiofiles.open(os.path.join(folder, filename), "wb") succeeds: the last
\* component names a file and the ones before it directories that exist
CanOpen(filename) ==
  LET comps == Split(filename, <<>>, <<>>)
  IN  /\ comps[Len(comps)] \notin DirNames
      /\ \A i \in 1..(Len(comps) - 1) : comps[i] \in DirNames

RECURSIVE Walk(_, _)
\* following the components from the download root (depth 0) never leaves it
Walk(comps, depth) ==
  IF comps = <<>> THEN TRUE
  ELSE LET d == IF Head(comps) \in {<<>>, <<".">>} THEN depth
                ELSE IF Head(comps) = <<".", ".">> THEN depth - 1
                ELSE depth + 1
       IN  d >= 0 /\ Walk(Tail(comps), d)

\* os.path.join(download_path, folder, filename) is inside download_path; a
\* filename that begins with "/" is absolute and replaces what precedes it
Inside(path) ==
  /\ ~(path[2] # <<>> /\ Head(path[2]) = "/")
  /\ Walk(<<path[1]>> \o Split(path[2], <<>>, <<>>), 0)

\* names of up to MaxNameLen characters
PathChars == {"a", ".", "/"}
RECURSIVE NamesOfLen(_)
NamesOfLen(n) ==
  IF n = 0 THEN {<<>>}
  ELSE {Append(s, c) : s \in NamesOfLen(n - 1), c \in PathChars}
Names == UNION {NamesOfLen(n) : n \in 1..MaxNameLen}
\* an optional name: the empty name stands for one that is not given
Optional(name) == IF name = <<>> THEN None ELSE name
\* add_task(url, anime_title, episode, resolution, filename)
PathRequest(anime_title, filename) ==
  [url |-> "u1", anime_title |-> anime_title, episode |-> <<1, 0>>,
   resolution |-> 720, filename |-> Optional(filename)]
\* an answer without Content-Length whose Content-Disposition names the file
PathResponse(name) == [url |-> "u1", name |-> Optional(name), length |-> 0]

\* DownloadTask(id=..., url=..., ...) with the dataclass defaults
DownloadTask(id, url, filename, anime_title, episode, resolution) ==
  [id |-> id, url |-> url, filename |-> filename, anime_title |-> anime_title,
   episode |-> episode, resolution |-> resolution,
   status |-> "pending", progress |-> 0, downloaded_bytes |-> 0,
   total_bytes |-> 0, error |-> None, started_at |-> FALSE]

SeqToSet(s) == {s[i] : i \in DOMAIN s}

\* ------------------------------------------------------------ text helpers
\* texts are sequences of characters (strings of length one)

\* KwikPahe.base_alphabet
base_alphabet ==
  <<"0", "1", "2", "3", "4", "5", "6", "7", "8", "9", "a", "b", "c", "d", "e",
  "f", "g", "h", "i", "j", "k", "l", "m", "n", "o", "p", "q", "r", "s", "t",
  "u", "v", "w", "x", "y", "z", "A", "B", "C", "D", "E", "F", "G", "H", "I",
  "J", "K", "L", "M", "N", "O", "P", "Q", "R", "S", "T", "U", "V", "W", "X",
  "Y", "Z", "+", "/">>

\* the printable ASCII characters, code points 32..126 in order (the grave
\* accent, which a string cannot hold, is written U+60)
Ascii ==
  <<" ", "!", "\"", "#", "$", "%", "&", "'", "(", ")", "*", "+", ",", "-",
  ".", "/", "0", "1", "2", "3", "4", "5", "6", "7", "8", "9", ":", ";", "<",
  "=", ">", "?", "@", "A", "B", "C", "D", "E", "F", "G", "H", "I", "J", "K",
  "L", "M", "N", "O", "P", "Q", "R", "S", "T", "U", "V", "W", "X", "Y", "Z",
  "[", "\\", "]", "^", "_", "U+60", "a", "b", "c", "d", "e", "f", "g", "h", "i",
  "j", "k", "l", "m", "n", "o", "p", "q", "r", "s", "t", "u", "v", "w", "x",
  "y", "z", "{", "|", "}", "~">>

\* a character that stands for every code point outside 32..126
OtherChar == "U+"
\* chr(code) and ord(c)
Chr(code) == IF code - 31 \in DOMAIN Ascii THEN Ascii[code - 31] ELSE OtherChar
Ord(c) == 31 + (CHOOSE i \in DOMAIN Ascii : Ascii[i] = c)

Digits == {base_alphabet[i] : i \in 1..10}
Letters == {base_alphabet[i] : i \in 11..62}
Whitespace == {" ", "\n", "\r"}

\* what a call gives back: a value, or the exception it raised
Returned(value) == [raised |-> None, value |-> value, message |-> ""]
Raised(exception) == [raised |-> exception, value |-> <<>>, message |-> ""]

\* s[:n]
Prefix(s, n) == SubSeq(s, 1, IF n < Len(s) THEN n ELSE Len(s))

\* s.find(c): the index from 0 of the first c in s, -1 without one
Find(s, c) ==
  IF \E i \in DOMAIN s : s[i] = c
  THEN (CHOOSE i \in DOMAIN s : s[i] = c /\ \A k \in 1..(i - 1) : s[k] # c) - 1
  ELSE -1

RECURSIVE Pow(_, _)
Pow(b, e) == IF e = 0 THEN 1 ELSE b * Pow(b, e - 1)

RECURSIVE Str(_)
\* str(n) for n >= 0
Str(n) == IF n < 10 THEN <<base_alphabet[n + 1]>>
          ELSE Str(n \div 10) \o <<base_alphabet[(n % 10) + 1]>>

RECURSIVE int(_)
\* int(s) for a text of decimal digits
int(s) == IF s = <<>> THEN 0
          ELSE 10 * int(SubSeq(s, 1, Len(s) - 1)) + Find(base_alphabet, s[Len(s)])

RECURSIVE ReplaceChar(_, _, _)
\* s.replace(c, new) for a single character c
ReplaceChar(s, c, new) ==
  IF \A i \in DOMAIN s : s[i] # c THEN s
  ELSE (IF Head(s) = c THEN new ELSE <<Head(s)>>) \o ReplaceChar(Tail(s), c, new)

RECURSIVE Replace(_, _, _)
\* s.replace(old, new): the occurrences of old from left to right, none
\* overlapping another
Replace(s, old, new) ==
  IF Len(s) < Len(old) THEN s
  ELSE IF SubSeq(s, 1, Len(old)) = old
       THEN new \o Replace(SubSeq(s, Len(old) + 1, Len(s)), old, new)
       ELSE <<Head(s)>> \o Replace(Tail(s), old, new)

\* ------------------------------------------------------------- _base_convert
RECURSIVE ToDecimal(_, _, _)
\* L29-37: the value of input_str over the first from_base characters of the
\* alphabet; a character outside them counts for nothing (idx: the position
\* from the right, from 0)
ToDecimal(input_str, from_base, idx) ==
  IF idx = Len(input_str) THEN 0
  ELSE LET pos == Find(Prefix(base_alphabet, from_base),
                       input_str[Len(input_str) - idx])
       IN  (IF pos # -1 THEN pos * Pow(from_base, idx) ELSE 0)
           + ToDecimal(input_str, from_base, idx + 1)

RECURSIVE FromDecimal(_, _, _)
\* L43-46: the digits of decimal_value in to_base (to_base >= 2)
FromDecimal(decimal_value, to_base, result) ==
  IF decimal_value > 0
  THEN FromDecimal(decimal_value \div to_base, to_base,
                   <<Prefix(base_alphabet, to_base)[(decimal_value % to_base) + 1]>>
                     \o result)
  ELSE result

\* int(result) of L48 for a non-empty text over the alphabet: decimal
\* digits, or "+" and decimal digits; ValueError for any other text
ParseInt(result) ==
  LET digits == IF Head(result) = "+" THEN Tail(result) ELSE result
  IN  IF digits # <<>> /\ \A i \in DOMAIN digits : digits[i] \in Digits
      THEN Returned(int(digits))
      ELSE Raised("ValueError")

\* (the text read in base 10 whatever from_base is)
_base_convert_from10(input_str, from_base, to_base) ==
  LET decimal_value == ToDecimal(input_str, 10, 0)
      result == FromDecimal(decimal_value, to_base, <<>>)
  IN  IF decimal_value = 0 THEN Returned(0)
      ELSE ParseInt(result)

\* L24-48
_base_convert(input_str, from_base, to_base) ==
  LET decimal_value == ToDecimal(input_str, from_base, 0)
      result == FromDecimal(decimal_value, to_base, <<>>)
  IN  IF decimal_value = 0 THEN Returned(0)
      ELSE ParseInt(result)

\* KwikPahe._0xe16c of animepahe_dl.py (L12-31): as _base_convert, but for
\* the value 0 it returns i[0], the text "0", not the number
_0xe16c(IS, Iy, ms) ==
  LET j == ToDecimal(IS, Iy, 0)
      k == FromDecimal(j, ms, <<>>)
  IN  IF j = 0
      THEN IF ms > 0 THEN Returned(<<Prefix(base_alphabet, ms)[1]>>)
           ELSE Raised("IndexError")
      ELSE ParseInt(k)

\* ------------------------------------------------------ decode_obfuscated_js
RECURSIVE Substitute(_, _, _)
\* L74-75: key[j] replaced by str(j), for j = 0, 1, ... in this order
Substitute(segment, key, j) ==
  IF j = Len(key) THEN segment
  ELSE Substitute(ReplaceChar(segment, key[j + 1], Str(j)), key, j + 1)

RECURSIVE SegmentEnd(_, _, _)
\* L69-71: the index (from 0) of the first delimiter at or after i, len(encoded)
\* without one
SegmentEnd(encoded, delimiter, i) ==
  IF i < Len(encoded) /\ encoded[i + 1] # delimiter
  THEN SegmentEnd(encoded, delimiter, i + 1)
  ELSE i

\* the largest code point, sys.maxunicode
MaxUnicode == 1114111

RECURSIVE DecodeFrom(_, _, _, _, _, _)
\* the `while i < len(encoded)` loop of L66-80
DecodeFrom(encoded, key, offset, base, i, decoded) ==
  IF ~(i < Len(encoded)) THEN Returned(decoded)
  ELSE IF ~(base < Len(key)) THEN Raised("IndexError")
  ELSE LET end == SegmentEnd(encoded, key[base + 1], i)
           segment == Substitute(SubSeq(encoded, i + 1, end), key, 0)
           char_code == _base_convert(segment, base, 10).value - offset
       IN  IF char_code \notin 0..MaxUnicode THEN Raised("ValueError")
           ELSE DecodeFrom(encoded, key, offset, base, end + 1,
                           Append(decoded, Chr(char_code)))

decode_obfuscated_js(encoded, key, offset, base) ==
  DecodeFrom(encoded, key, offset, base, 0, <<>>)

RECURSIVE DecodeJsFrom(_, _, _, _, _, _)
\* the `while i < len(Hb)` loop of animepahe_dl.py L35-46; for a segment
\* of value 0, _0xe16c returns a text and `text - Of` raises TypeError
DecodeJsFrom(Hb, Wg, Of, Jg, i, gj) ==
  IF ~(i < Len(Hb)) THEN Returned(gj)
  ELSE IF ~(Jg < Len(Wg)) THEN Raised("IndexError")
  ELSE LET end == SegmentEnd(Hb, Wg[Jg + 1], i)
           s == Substitute(SubSeq(Hb, i + 1, end), Wg, 0)
           code == _0xe16c(s, Jg, 10)
       IN  IF ToDecimal(s, Jg, 0) = 0 THEN Raised("TypeError")
           ELSE IF code.value - Of \notin 0..MaxUnicode
           THEN Raised("ValueError")
           ELSE DecodeJsFrom(Hb, Wg, Of, Jg, end + 1,
                             Append(gj, Chr(code.value - Of)))

\* KwikPahe.decode_js_style of animepahe_dl.py (L33-48)
decode_js_style(Hb, Wg, Of, Jg) == DecodeJsFrom(Hb, Wg, Of, Jg, 0, <<>>)

\* ------------------------------------------------------ regular expressions
\* A pattern is a sequence of items, each a literal text or a repeated
\* character class: the characters of `set` (those outside it when neg),
\* at least `min` of them, any number when `many` and at most one otherwise;
\* `cap` marks a group.  In the patterns below no class can match the
\* character that has to follow it, so the longest run is the only match.
Lit(text) ==
  [text |-> text, neg |-> FALSE, set |-> {}, min |-> 0, many |-> FALSE,
   cap |-> FALSE, class |-> FALSE]
Class(neg, set, min, many, cap) ==
  [text |-> <<>>, neg |-> neg, set |-> set, min |-> min, many |-> many,
   cap |-> cap, class |-> TRUE]

\* the position after the longest run of characters of the class from pos
\* (at most one character unless item.many)
RunEnd(text, pos, item) ==
  LET last == IF item.many \/ pos > Len(text) THEN Len(text) + 1 ELSE pos + 1
  IN  CHOOSE end \in pos..last :
        /\ end = last \/ (text[end] \in item.set) = item.neg
        /\ \A i \in pos..(end - 1) : (text[i] \in item.set) # item.neg

NoMatch == [found |-> FALSE, start |-> 0, end |-> 0, groups |-> <<>>]

RECURSIVE MatchAt(_, _, _, _, _, _)
\* the match of pattern[k..] at position pos of text, after groups were
\* captured; start is where the whole match began
MatchAt(text, start, pos, pattern, k, groups) ==
  IF k > Len(pattern)
  THEN [found |-> TRUE, start |-> start, end |-> pos, groups |-> groups]
  ELSE LET item == pattern[k]
       IN  IF item.class
           THEN LET end == RunEnd(text, pos, item)
                IN  IF end - pos < item.min THEN NoMatch
                    ELSE MatchAt(text, start, end, pattern, k + 1,
                                 IF item.cap
                                 THEN Append(groups, SubSeq(text, pos, end - 1))
                                 ELSE groups)
           ELSE IF /\ pos + Len(item.text) - 1 <= Len(text)
                   /\ SubSeq(text, pos, pos + Len(item.text) - 1) = item.text
                THEN MatchAt(text, start, pos + Len(item.text), pattern, k + 1,
                             groups)
                ELSE NoMatch

\* re.search(pattern, text): the leftmost match
re_search(pattern, text) ==
  LET starts == {start \in 1..(Len(text) + 1) :
                   MatchAt(text, start, start, pattern, 1, <<>>).found}
      first == CHOOSE start \in starts : \A other \in starts : start <= other
  IN  IF starts = {} THEN NoMatch
      ELSE MatchAt(text, first, first, pattern, 1, <<>>)

\* \s*
Spaces == Class(FALSE, Whitespace, 0, TRUE, FALSE)
\* \d+ and (\d+)
Number == Class(FALSE, Digits, 1, TRUE, FALSE)
NumberGroup == Class(FALSE, Digits, 1, TRUE, TRUE)

\* r'(https?://kwik\.[^/\s"]+/[^/\s"]+/[^"\s]*)' (L248, L265)
KwikLinkPattern ==
  << Lit(<<"h", "t", "t", "p">>), Class(FALSE, {"s"}, 0, FALSE, FALSE),
     Lit(<<":", "/", "/", "k", "w", "i", "k", ".">>),
     Class(TRUE, {"/", "\""} \cup Whitespace, 1, TRUE, FALSE), Lit(<<"/">>),
     Class(TRUE, {"/", "\""} \cup Whitespace, 1, TRUE, FALSE), Lit(<<"/">>),
     Class(TRUE, {"\""} \cup Whitespace, 0, TRUE, FALSE) >>

\* the call expression ("...", n, "...", n, n, n): both quoted arguments
\* `quoted`, `tail` between the last number and the closing bracket
CallPattern(quoted, tail) ==
  << Lit(<<"(">>), Spaces, Lit(<<"\"">>), quoted, Lit(<<"\"">>), Spaces,
     Lit(<<",">>), Spaces, Number, Spaces,
     Lit(<<",">>), Spaces, Lit(<<"\"">>), quoted, Lit(<<"\"">>), Spaces,
     Lit(<<",">>), Spaces, NumberGroup, Spaces,
     Lit(<<",">>), Spaces, NumberGroup, Spaces,
     Lit(<<",">>), Spaces, Number >> \o tail \o << Spaces, Lit(<<")">>) >>

\* r'\(\s*"([^",]*)"\s*,\s*\d+\s*,\s*"([^",]*)"\s*,\s*(\d+)\s*,\s*(\d+)\s*,
\*   \s*\d+[a-zA-Z]?\s*\)' (L254-257)
EmbedPayloadPattern ==
  CallPattern(Class(TRUE, {"\"", ","}, 0, TRUE, TRUE),
              <<Class(FALSE, Letters, 0, FALSE, FALSE)>>)

\* r'\(\s*"([^"]+)"\s*,\s*\d+\s*,\s*"([^"]+)"\s*,\s*(\d+)\s*,\s*(\d+)\s*,
\*   \s*\d+\s*\)' (L186-189)
KwikPayloadPattern == CallPattern(Class(TRUE, {"\""}, 1, TRUE, TRUE), <<>>)

\* r'action="([^"]+)"' (L204) and r'value="([^"]+)"' (L205)
AttributePattern(name) ==
  << Lit(name \o <<"=", "\"">>), Class(TRUE, {"\""}, 1, TRUE, TRUE),
     Lit(<<"\"">>) >>
ActionPattern == AttributePattern(<<"a", "c", "t", "i", "o", "n">>)
ValuePattern == AttributePattern(<<"v", "a", "l", "u", "e">>)

\* m.group(0): the text a match covers
Matched(text, m) == SubSeq(text, m.start, m.end - 1)

\* r"kwik_session=([^;]*);" (L181)
SessionPattern ==
  << Lit(<<"k", "w", "i", "k", "_", "s", "e", "s", "s", "i", "o", "n", "=">>),
     Class(TRUE, {";"}, 0, TRUE, TRUE), Lit(<<";">>) >>

\* response.text.replace("\r\n", "").replace("\r", "").replace("\n", ""):
\* every "\r" and every "\n" is dropped
CleanText(text) == SelectSeq(text, LAMBDA c : c \notin {"\r", "\n"})

\* raise KwikDecodeError(message)
KwikDecodeError(message) ==
  [raised |-> "KwikDecodeError", value |-> <<>>, message |-> message]

\* --------------------------------------------------------- HTTP exchanges
\* retries of _fetch_with_retry (L89) and of decode_kwik_page (L157)
FetchRetries == 3
KwikRetries == 5

\* what the client gets back for a request: an exception raised by the
\* transport, or a response (set_cookie, location: the header's value, the
\* empty text without the header)
Response(status_code, text, set_cookie, location) ==
  [raised |-> None, status_code |-> status_code, text |-> text,
   set_cookie |-> set_cookie, location |-> location]
TransportError ==
  [raised |-> "ConnectError", status_code |-> 0, text |-> <<>>,
   set_cookie |-> <<>>, location |-> <<>>]

\* (one more attempt than `retries`)
_fetch_with_retry_4(attempt, response) ==
  IF response.raised = None /\ response.status_code \in {200, 302}
  THEN "return"
  ELSE IF attempt < FetchRetries THEN "again" ELSE "raise"

\* _fetch_with_retry, one turn of its loop (L95-112): the request of turn
\* `attempt` was answered by `response`
_fetch_with_retry(attempt, response) ==
  IF response.raised = None /\ response.status_code \in {200, 302}
  THEN "return"
  ELSE IF attempt < FetchRetries - 1 THEN "again" ELSE "raise"

\* fetch_direct_link after its POST was answered (L146-151); an exception of
\* the transport passes through
\* (the body returned in place of the Location header)
fetch_direct_link_body(response) ==
  IF response.raised # None THEN Raised(response.raised)
  ELSE IF response.status_code = 302 /\ response.text # <<>>
       THEN Returned(response.text)
       ELSE KwikDecodeError("No redirect found from Kwik POST")

\* (any redirect status taken as success)
fetch_direct_link_3xx(response) ==
  IF response.raised # None THEN Raised(response.raised)
  ELSE IF response.status_code \in 300..399 /\ response.location # <<>>
       THEN Returned(response.location)
       ELSE KwikDecodeError("No redirect found from Kwik POST")

fetch_direct_link(response) ==
  IF response.raised # None THEN Raised(response.raised)
  ELSE IF response.status_code = 302 /\ response.location # <<>>
       THEN Returned(response.location)
       ELSE KwikDecodeError("No redirect found from Kwik POST")

\* the call expression a pattern finds in a text, decoded (L196-201,
\* L262-263)
DecodeMatch(m) ==
  decode_obfuscated_js(m.groups[1], m.groups[2], int(m.groups[3]),
                       int(m.groups[4]))

\* (a decoded text without link taken as the link)
EmbedPage_any(response) ==
  IF response.status_code # 200
  THEN KwikDecodeError("Failed to fetch embed page")
  ELSE LET clean_text == CleanText(response.text)
           kwik_match == re_search(KwikLinkPattern, clean_text)
           encoded_match == re_search(EmbedPayloadPattern, clean_text)
           decoded == DecodeMatch(encoded_match)
           decoded_match == re_search(KwikLinkPattern, decoded.value)
           rewrite(kwik_url) ==
             Returned(Replace(kwik_url, <<"/", "d", "/">>, <<"/", "f", "/">>))
       IN  IF kwik_match.found THEN rewrite(Matched(clean_text, kwik_match))
           ELSE IF ~encoded_match.found
           THEN KwikDecodeError("Could not extract Kwik link")
           ELSE IF decoded.raised # None THEN decoded
           ELSE IF ~decoded_match.found
           THEN rewrite(decoded.value)
           ELSE rewrite(Matched(decoded.value, decoded_match))

\* extract_download_link after the embed page was fetched (L242-272): the
\* link of the intermediate page, or the exception raised
EmbedPage(response) ==
  IF response.status_code # 200
  THEN KwikDecodeError("Failed to fetch embed page")
  ELSE LET clean_text == CleanText(response.text)
           kwik_match == re_search(KwikLinkPattern, clean_text)
           encoded_match == re_search(EmbedPayloadPattern, clean_text)
           decoded == DecodeMatch(encoded_match)
           decoded_match == re_search(KwikLinkPattern, decoded.value)
           rewrite(kwik_url) ==
             Returned(Replace(kwik_url, <<"/", "d", "/">>, <<"/", "f", "/">>))
       IN  IF kwik_match.found THEN rewrite(Matched(clean_text, kwik_match))
           ELSE IF ~encoded_match.found
           THEN KwikDecodeError("Could not extract Kwik link")
           ELSE IF decoded.raised # None THEN decoded
           ELSE IF ~decoded_match.found
           THEN KwikDecodeError("Could not find Kwik link in decoded content")
           ELSE rewrite(Matched(decoded.value, decoded_match))

\* KwikPahe.extract_kwik_link of animepahe_dl.py (L101-129) after the embed
\* page was fetched: the link it hands to fetch_kwik_dlink, or the exception
extract_kwik_link(response) ==
  IF response.status_code # 200 THEN Raised("RuntimeError")
  ELSE LET clean_text == CleanText(response.text)
           kwik_link_match == re_search(KwikLinkPattern, clean_text)
           encoded_match == re_search(EmbedPayloadPattern, clean_text)
           decoded_string ==
             decode_js_style(encoded_match.groups[1], encoded_match.groups[2],
                             int(encoded_match.groups[3]),
                             int(encoded_match.groups[4]))
           decoded_match == re_search(KwikLinkPattern, decoded_string.value)
       IN  IF kwik_link_match.found
           THEN Returned(Matched(clean_text, kwik_link_match))
           ELSE IF ~encoded_match.found THEN Raised("RuntimeError")
           ELSE IF decoded_string.raised # None THEN decoded_string
           ELSE IF ~decoded_match.found THEN Raised("RuntimeError")
           ELSE Returned(Replace(Matched(decoded_string.value, decoded_match),
                                 <<"/", "d", "/">>, <<"/", "f", "/">>))

\* decode_kwik_page after the intermediate page was fetched (L177-212):
\* "post" with the fields of the token POST, "retry" when a pattern is not
\* found, or the exception raised by the decoder
KwikPage(response) ==
  LET clean_text == CleanText(response.text)
      session_match == re_search(SessionPattern, response.set_cookie)
      session_cookie ==
        IF session_match.found THEN session_match.groups[1] ELSE <<>>
      encoded_match == re_search(KwikPayloadPattern, clean_text)
      decoded == DecodeMatch(encoded_match)
      action_match == re_search(ActionPattern, decoded.value)
      token_match == re_search(ValuePattern, decoded.value)
      none == [next |-> "retry", raised |-> None, form_action |-> <<>>,
               token |-> <<>>, session_cookie |-> session_cookie]
  IN  IF ~encoded_match.found THEN none
      ELSE IF decoded.raised # None
      THEN [none EXCEPT !.next = "except", !.raised = decoded.raised]
      ELSE IF ~action_match.found \/ ~token_match.found THEN none
      ELSE [none EXCEPT !.next = "post",
                        !.form_action = action_match.groups[1],
                        !.token = token_match.groups[1]]

\* ------------------------------------------------------ pages of the site

RECURSIVE Encode(_, _, _, _)
\* what the site's packer does, the inverse of decode_obfuscated_js: each
\* character's code plus offset, written in `base` with the characters of
\* key for digits, then the delimiter key[base]
Encode(plain, key, offset, base) ==
  IF plain = <<>> THEN <<>>
  ELSE LET digits == FromDecimal(Ord(Head(plain)) + offset, base, <<>>)
       IN  [i \in DOMAIN digits |-> key[Find(base_alphabet, digits[i]) + 1]]
           \o <<key[base + 1]>> \o Encode(Tail(plain), key, offset, base)

\* the call expression ("<encoded>", 7, "<key>", <offset>, <base>, 3) of a
\* page's inline script
CallExpression(encoded, key, offset, base) ==
  <<"(", "\"">> \o encoded \o <<"\"", ",", " ", "7", ",", "\"">> \o key
  \o <<"\"", ",">> \o Str(offset) \o <<",">> \o Str(base)
  \o <<",", "3", ")">>

\* a page whose script hides `plain`, with a line break in the script
Packed(plain, key, offset, base) ==
  <<"<", "\n">> \o CallExpression(Encode(plain, key, offset, base), key,
                                  offset, base) \o <<"\r", "\n", ">">>

\* alphabet keys: 20 characters, and 4
Key20 == <<"a", "b", "c", "d", "e", "f", "g", "h", "i", "j", "k", "l", "m",
  "n", "o", "p", "q", "r", "s", "t">>
Key4 == <<"w", "x", "y", "z">>

\* links to the intermediate page, as the embed page's script writes them
LinkD == <<"\"", "h", "t", "t", "p", ":", "/", "/", "k", "w", "i", "k", ".",
  "a", "/", "d", "/", "b", "\"">>
LinkF == <<"h", "t", "t", "p", "s", ":", "/", "/", "k", "w", "i", "k", ".",
  "a", "/", "f", "/", "c", " ">>

\* the form of the intermediate page
FormP == <<"a", "c", "t", "i", "o", "n", "=", "\"", "h", "t", "t", "p", ":",
  "/", "/", "k", "/", "p", "\"", " ", "v", "a", "l", "u", "e", "=", "\"",
  "T", "1", "\"">>
FormQ == <<"v", "a", "l", "u", "e", "=", "\"", "T", "2", "\"", " ", "a",
  "c", "t", "i", "o", "n", "=", "\"", "/", "q", "\"">>

\* Set-Cookie headers of the intermediate page (the empty one: no header)
CookieS == <<"k", "w", "i", "k", "_", "s", "e", "s", "s", "i", "o", "n",
  "=", "S", ";", " ", "p", "a", "t", "h", "=", "/">>

\* direct links, the Location of the answer to the token POST
Location1 == <<"h", "t", "t", "p", ":", "/", "/", "v", "/", "1">>
Location2 == <<"h", "t", "t", "p", ":", "/", "/", "v", "/", "2">>

\* the embed url given to extract_download_link
EmbedUrl == <<"h", "t", "t", "p", ":", "/", "/", "p", "/", "e">>

\* embed pages without a literal link whose script decodes to one
EmbedPages == {Packed(LinkD, Key20, 10, 5), Packed(LinkF, Key4, 0, 3)}
\* intermediate pages whose script decodes to a form with action and token
KwikPages == {Packed(FormP, Key20, 10, 5), Packed(FormQ, Key4, 0, 3)}

\* the mocked site: it serves these pages, and answers the token POST with
\* 302 and a Location
EmbedAnswers == {Response(200, text, <<>>, <<>>) : text \in EmbedPages}
KwikAnswers ==
  {Response(200, text, set_cookie, <<>>) :
     text \in KwikPages, set_cookie \in {<<>>, CookieS}}
PostAnswers ==
  {Response(302, <<>>, <<>>, location) : location \in {Location1, Location2}}
\* a request that fails: no connection, or 503 from the server
Failures == {TransportError, Response(503, <<>>, <<>>, <<>>)}

\* a literal link on the embed page with two /d/ one after the other
LinkDD == <<"\"", "h", "t", "t", "p", "s", ":", "/", "/", "k", "w", "i", "k",
  ".", "a", "/", "d", "/", "d", "/", "x", "\"">>
\* a page with neither a link nor a call expression
PlainPage == <<"<", "p", ">">>
\* a script that hides a text without a link, and one hiding a form without
\* action
PackedNoLink == Packed(<<"n", "o">>, Key4, 0, 3)
PackedNoAction ==
  Packed(<<"v", "a", "l", "u", "e", "=", "\"", "T", "\"">>, Key4, 0, 3)
\* malformed payloads: the base is not an index of the key; a segment's
\* value is smaller than the offset
BadBase == CallExpression(<<"w", "x">>, Key4, 0, 9)
BadOffset == CallExpression(<<"x", "z">>, Key4, 5, 3)

\* any site: what the three requests may be answered with
SiteEmbedPages ==
  {Packed(LinkD, Key20, 10, 5), LinkF, LinkDD, PlainPage, PackedNoLink,
   BadBase, BadOffset}
SiteKwikPages ==
  {Packed(FormP, Key20, 10, 5), PlainPage, PackedNoAction, BadBase}
OtherStatus == {200, 301, 303, 307, 403, 500}
SiteEmbedAnswers ==
  {Response(200, text, <<>>, <<>>) : text \in SiteEmbedPages}
  \cup {Response(302, <<>>, <<>>, <<>>)} \cup Failures
SiteKwikAnswers ==
  {Response(200, text, CookieS, <<>>) : text \in SiteKwikPages}
  \cup {Response(302, <<>>, <<>>, <<>>)} \cup Failures
SitePostAnswers ==
  {Response(302, <<>>, <<>>, location) : location \in {Location1, <<>>}}
  \cup {Response(status_code, <<>>, <<>>, Location2) :
          status_code \in OtherStatus}
  \cup {TransportError}

\* Set-Cookie headers with another session value, and with no kwik_session
CookieR == <<"k", "w", "i", "k", "_", "s", "e", "s", "s", "i", "o", "n",
  "=", "R", ";", " ", "p", "a", "t", "h", "=", "/">>
CookieOther == <<"a", "=", "b", ";", " ", "p", "a", "t", "h", "=", "/">>
\* the intermediate page served with each of them, and with no header
CookieAnswers ==
  {Response(200, Packed(FormP, Key20, 10, 5), set_cookie, <<>>) :
     set_cookie \in {<<>>, CookieS, CookieR, CookieOther}}

\* what extract_download_link and decode_kwik_page make of each answer
EmbedPageOf ==
  [response \in EmbedAnswers \cup SiteEmbedAnswers |-> EmbedPage(response)]
KwikPageOf ==
  [response \in KwikAnswers \cup SiteKwikAnswers \cup CookieAnswers |->
     KwikPage(response)]

\* ------------------------------------------------------------------ state
VARIABLES
  tasks,                \* every DownloadTask object created, by reference
  queue,                \* self.queue: references, head first
  active_tasks,         \* self.active_tasks: task id -> reference
  completed_tasks,      \* self.completed_tasks
  failed_tasks,         \* self.failed_tasks
  _running,             \* self._running
  _workers,             \* self._workers: worker coroutines of the pool
  max_workers,          \* self.max_workers
  _progress_callbacks,  \* self._progress_callbacks
  wk,                   \* every worker coroutine created: where it is suspended
  adder,                \* the add_task call suspended in its notification
  stopper,              \* the stop() call suspended in asyncio.gather
  files,                \* destination paths that exist on disk
  delivered,            \* per callback and task: status it was last called with
  removed,              \* tasks dropped by retry_failed / clear_completed
  connected_websockets, \* routes.connected_websockets
  bus,                  \* the _notify_progress call in progress, and what
                        \* each subscriber has been handed so far
  kwik,                 \* the extract_download_link call: where it is
                        \* suspended, its locals, the requests it made
  codec,                \* a call of _base_convert or decode_obfuscated_js:
                        \* its arguments and what it gave back
  resolutions           \* the extract_download_link calls of one
                        \* get_episode_links_batch, each with its own client

web == <<connected_websockets, bus>>
vars == <<tasks, queue, active_tasks, completed_tasks, failed_tasks, _running,
          _workers, max_workers, _progress_callbacks, wk, adder, stopper,
          files, delivered, removed, connected_websockets, bus, kwik, codec,
          resolutions>>

\* every variable of the DownloadManager but its callback list
manager == <<tasks, queue, active_tasks, completed_tasks, failed_tasks,
             _running, _workers, max_workers, wk, adder, stopper, files,
             delivered, removed>>

\* websocket connections, by the order in which they may be opened
Sockets == 1..MaxSockets
\* handlers given to add_progress_callback: "ws" is progress_callback of
\* routes.init_clients, "log" is a plain function that may raise
BusCallbacks == {"ws", "log"}

\* no `for ws in connected_websockets` loop is running
NoIter == [active |-> FALSE, used |-> 0, orig |-> {}, visited |-> {}, at |-> 0,
          disconnected |-> {}]
\* no _notify_progress call is running and nothing has been published yet
NoBus ==
  [published |-> 0, on |-> FALSE, i |-> 0, iter |-> NoIter,
   invoked |-> [c \in BusCallbacks |-> {}],
   raised |-> [c \in BusCallbacks |-> {}],
   audience |-> [e \in 1..MaxEvents |-> {}],
   sent |-> [ws \in Sockets |-> {}],
   send_failed |-> [ws \in Sockets |-> {}],
   broken |-> {}, gone |-> {}, returned |-> {}]

NoAdder == [on |-> FALSE, task |-> 0, ni |-> 0]
NoStopper == [on |-> FALSE, waiting |-> {}, inflight |-> {}]

Refs == DOMAIN tasks
EmptyDict == [k \in {} |-> 0]
ActiveRefs == {active_tasks[k] : k \in DOMAIN active_tasks}
\* str(uuid.uuid4()): an id no task created so far (ts) carries
uuid4(ts) == Len(ts) + 1

\* ------------------------------------------------- extract_download_link
\* no call of extract_download_link yet
\* a request the client made and what came back
Exchange(method, url, referer, cookie, token, response) ==
  [method |-> method, url |-> url, referer |-> referer, cookie |-> cookie,
   token |-> token, response |-> response]
NoExchange ==
  Exchange("", <<>>, <<>>, <<>>, <<>>, Response(0, <<>>, <<>>, <<>>))

\* no call of extract_download_link yet.  Beside the locals of the call:
\* requests, every exchange so far (kept while `logged`); last, the latest
\* exchange; gets, pages, posts, the requests sent for the embed page, for
\* the intermediate page and as token POST; attempts, the runs of
\* decode_kwik_page that fetched the page; misses, those of them that ended
\* because a pattern was not found in the page
NoCall ==
  [pc |-> "idle", pahe_embed_url |-> <<>>, attempt |-> 0, retries |-> 0,
   kwik_url |-> <<>>, form_action |-> <<>>, token |-> <<>>,
   session_cookie |-> <<>>, outcome |-> Returned(<<>>), requests |-> <<>>,
   logged |-> TRUE, last |-> NoExchange, gets |-> 0, pages |-> 0,
   posts |-> 0, attempts |-> 0, misses |-> 0]
\* the same with the record of every exchange switched off
NoCallUnlogged == [NoCall EXCEPT !.logged = FALSE]

\* the call k after an exchange
Sent(k, exchange) ==
  [k EXCEPT !.requests = IF k.logged THEN Append(@, exchange) ELSE @,
            !.last = exchange,
            !.gets = IF k.pc = "embed" THEN @ + 1 ELSE @,
            !.pages = IF k.pc = "page" THEN @ + 1 ELSE @,
            !.posts = IF k.pc = "post" THEN @ + 1 ELSE @]

\* no call of _base_convert or decode_obfuscated_js
NoCodec == [fn |-> "", args |-> <<>>, done |-> FALSE, out |-> Returned(<<>>)]

\* the requests of the call that failed so far
Failed(k) ==
  {i \in DOMAIN k.requests :
     \/ k.requests[i].response.raised # None
     \/ k.requests[i].response.status_code = 503}

\* the call ends: it returns a link or raises
End(k, outcome) == [k EXCEPT !.pc = "done", !.outcome = outcome]

\* (the budget checked with < in place of <=)
decode_kwik_page_below(k, kwik_url, retries) ==
  IF retries < 0
  THEN End(k, KwikDecodeError("Exceeded retry limit for Kwik decode"))
  ELSE [k EXCEPT !.pc = "page", !.kwik_url = kwik_url, !.retries = retries,
                 !.attempt = 0, !.attempts = @ + 1]

\* return await self.decode_kwik_page(client, kwik_url, retries - 1), up to
\* its first request (L170-174)
decode_kwik_page(k, kwik_url, retries) ==
  IF retries <= 0
  THEN End(k, KwikDecodeError("Exceeded retry limit for Kwik decode"))
  ELSE [k EXCEPT !.pc = "page", !.kwik_url = kwik_url, !.retries = retries,
                 !.attempt = 0, !.attempts = @ + 1]

\* except Exception (L219-223)
except_Exception(k) ==
  IF k.retries > 1 THEN decode_kwik_page(k, k.kwik_url, k.retries - 1)
  ELSE End(k, KwikDecodeError("Failed to decode Kwik page"))

\* DownloadManager.__init__
Init ==
  /\ tasks = <<>>
  /\ queue = <<>>
  /\ active_tasks = EmptyDict
  /\ completed_tasks = <<>>
  /\ failed_tasks = <<>>
  /\ _running = FALSE
  /\ _workers = <<>>
  /\ max_workers \in 1..MaxWorkers
  /\ _progress_callbacks = <<>>
  /\ wk = <<>>
  /\ adder = NoAdder
  /\ stopper = NoStopper
  /\ files = {}
  /\ delivered = [c \in Callbacks |-> <<>>]
  /\ removed = {}
  /\ connected_websockets = {}
  /\ bus = NoBus
  /\ kwik = NoCall
  /\ codec = NoCodec
  /\ resolutions = <<>>

\* ---------------------------------------------------- progress callbacks
\* add_progress_callback
add_progress_callback(c) ==
  /\ c \notin SeqToSet(_progress_callbacks)
  /\ _progress_callbacks' = Append(_progress_callbacks, c)
  /\ UNCHANGED <<tasks, queue, active_tasks, completed_tasks, failed_tasks,
                 _running, _workers, max_workers, wk, adder, stopper, files,
                 delivered, removed>>
  /\ UNCHANGED <<web, kwik, codec, resolutions>>

\* callback(task) for the i-th callback of the list, seen by the subscriber
Invoke(d, i, ref, ts) ==
  [d EXCEPT ![_progress_callbacks[i]][ref] = ts[ref].status]

\* _notify_progress up to its first suspension: with no callback it returns
\* at once (0), otherwise the first callback is called and awaited (1)
NotifyStart == IF _progress_callbacks = <<>> THEN 0 ELSE 1
NotifyStartDelivered(d, ref, ts) ==
  IF _progress_callbacks = <<>> THEN d ELSE Invoke(d, 1, ref, ts)

\* ------------------------------------------- publishing to subscribers
\* websocket_progress: accept and connected_websockets.add; ws is the next
\* connection to be opened
websocket_connect(ws) ==
  /\ ws = Cardinality(connected_websockets \cup bus.gone) + 1
  /\ connected_websockets' = connected_websockets \cup {ws}
  /\ UNCHANGED <<manager, _progress_callbacks, bus, kwik, codec, resolutions>>

\* the client behind ws goes away: from now on sending to it raises
websocket_broken(ws) ==
  /\ ws \in connected_websockets \ bus.broken
  /\ bus' = [bus EXCEPT !.broken = @ \cup {ws}]
  /\ UNCHANGED <<manager, _progress_callbacks, connected_websockets, kwik, codec, resolutions>>

\* websocket_progress: receive_json raises, finally: discard
websocket_closed(ws) ==
  /\ ws \in bus.broken \ bus.gone
  /\ connected_websockets' = connected_websockets \ {ws}
  /\ bus' = [bus EXCEPT !.gone = @ \cup {ws}]
  /\ UNCHANGED <<manager, _progress_callbacks, kwik, codec, resolutions>>

\* broadcast_progress at the head of `for ws in connected_websockets`, with
\* b the state so far.  The set iterator raises RuntimeError when the set's
\* size differs from its size when the loop began; the error leaves
\* broadcast_progress and progress_callback and is caught by line 82 of
\* _notify_progress.  Otherwise it hands out an element not handed out yet
\* (one added during the loop may or may not be seen), or the loop ends and
\* difference_update prunes the sockets whose send raised.
BroadcastAdvance(b) ==
  IF Cardinality(connected_websockets) # b.iter.used
    THEN /\ bus' = [b EXCEPT !.iter = NoIter,
                             !.raised["ws"] = @ \cup {b.published},
                             !.i = @ + 1]
         /\ connected_websockets' = connected_websockets
    ELSE LET rest == connected_websockets \ b.iter.visited
         IN  \/ \E ws \in rest :
                  /\ bus' = [b EXCEPT !.iter.at = ws,
                                      !.iter.visited = @ \cup {ws}]
                  /\ connected_websockets' = connected_websockets
             \/ /\ rest \cap b.iter.orig = {}
                /\ bus' = [b EXCEPT !.iter = NoIter, !.i = @ + 1]
                /\ connected_websockets' =
                     connected_websockets \ b.iter.disconnected

\* a publisher (add_task, a worker) calls _notify_progress(task)
notify_begin ==
  /\ ~bus.on
  /\ bus.published < MaxEvents
  /\ bus' = [bus EXCEPT !.on = TRUE, !.published = @ + 1, !.i = 1]
  /\ UNCHANGED <<manager, _progress_callbacks, connected_websockets, kwik, codec, resolutions>>

\* _notify_progress at the head of `for callback in self._progress_callbacks`
\* (a list iterator: the i-th element of the list as it is now): the next
\* callback is called, or the loop ends and the publisher goes on.
\* ok: the plain callback returns (TRUE) or raises (FALSE)
notify_callback(ok) ==
  /\ bus.on /\ ~bus.iter.active
  /\ IF bus.i > Len(_progress_callbacks)
       THEN /\ ok
            /\ bus' = [bus EXCEPT !.on = FALSE, !.i = 0,
                                  !.returned = @ \cup {bus.published}]
            /\ connected_websockets' = connected_websockets
       ELSE LET c == _progress_callbacks[bus.i]
                b == [bus EXCEPT !.invoked[c] = @ \cup {bus.published}]
            IN  IF c = "ws"
                  THEN /\ ok
                       /\ IF connected_websockets = {}
                            THEN /\ bus' = [b EXCEPT !.i = @ + 1]
                                 /\ connected_websockets' = connected_websockets
                            ELSE BroadcastAdvance(
                                   [b EXCEPT
                                      !.audience[bus.published] = connected_websockets,
                                      !.iter = [active |-> TRUE,
                                                used |-> Cardinality(connected_websockets),
                                                orig |-> connected_websockets,
                                                visited |-> {}, at |-> 0,
                                                disconnected |-> {}]])
                  ELSE /\ bus' = IF ok THEN [b EXCEPT !.i = @ + 1]
                                 ELSE [b EXCEPT !.raised[c] = @ \cup {bus.published},
                                                !.i = @ + 1]
                       /\ connected_websockets' = connected_websockets
  /\ UNCHANGED <<manager, _progress_callbacks, kwik, codec, resolutions>>

\* broadcast_progress resumed in `await ws.send_json(message)`: the send
\* returned, or raised and the socket is noted in `disconnected`; next socket
send_json_done ==
  /\ bus.iter.active /\ bus.iter.at # 0
  /\ LET ws == bus.iter.at
         e == bus.published
     IN  BroadcastAdvance(
           IF ws \in bus.broken
             THEN [bus EXCEPT !.iter.at = 0,
                              !.iter.disconnected = @ \cup {ws},
                              !.send_failed[ws] = @ \cup {e}]
             ELSE [bus EXCEPT !.iter.at = 0, !.sent[ws] = @ \cup {e}])
  /\ UNCHANGED <<manager, _progress_callbacks, kwik, codec, resolutions>>

\* ------------------------------------------------------------- add_task
\* add_task putting the new task at the head of the queue
add_task_front(req) ==
  /\ ~adder.on
  /\ LET filename == IF req.filename = None
                       THEN DefaultFilename(req.episode, req.resolution)
                       ELSE req.filename
         task == DownloadTask(uuid4(tasks), req.url, filename, req.anime_title,
                              req.episode, req.resolution)
         ref == Len(tasks) + 1
         ts == Append(tasks, task)
         d == [c \in Callbacks |-> Append(delivered[c], "none")]
     IN  /\ tasks' = ts
         /\ queue' = <<ref>> \o queue
         /\ delivered' = NotifyStartDelivered(d, ref, ts)
         /\ IF NotifyStart = 0
              THEN /\ adder' = NoAdder
              ELSE /\ adder' = [on |-> TRUE, task |-> ref, ni |-> 1]
  /\ UNCHANGED <<active_tasks, completed_tasks, failed_tasks, _running,
                 _workers, max_workers, _progress_callbacks, wk, stopper,
                 files, removed>>
  /\ UNCHANGED <<web, kwik, codec, resolutions>>

\* add_task up to its first suspension: lines 117-130
add_task(req) ==
  /\ ~adder.on
  /\ LET filename == IF req.filename = None
                       THEN DefaultFilename(req.episode, req.resolution)
                       ELSE req.filename
         task == DownloadTask(uuid4(tasks), req.url, filename, req.anime_title,
                              req.episode, req.resolution)
         ref == Len(tasks) + 1
         ts == Append(tasks, task)
         d == [c \in Callbacks |-> Append(delivered[c], "none")]
     IN  /\ tasks' = ts
         /\ queue' = Append(queue, ref)
         /\ delivered' = NotifyStartDelivered(d, ref, ts)
         /\ IF NotifyStart = 0
              THEN /\ adder' = NoAdder
              ELSE /\ adder' = [on |-> TRUE, task |-> ref, ni |-> 1]
  /\ UNCHANGED <<active_tasks, completed_tasks, failed_tasks, _running,
                 _workers, max_workers, _progress_callbacks, wk, stopper,
                 files, removed>>
  /\ UNCHANGED <<web, kwik, codec, resolutions>>

\* add_task resumed inside _notify_progress: next callback, or return task
add_task_notify ==
  /\ adder.on
  /\ IF adder.ni < Len(_progress_callbacks)
       THEN /\ delivered' = Invoke(delivered, adder.ni + 1, adder.task, tasks)
            /\ adder' = [adder EXCEPT !.ni = @ + 1]
       ELSE /\ delivered' = delivered
            /\ adder' = NoAdder
  /\ UNCHANGED <<tasks, queue, active_tasks, completed_tasks, failed_tasks,
                 _running, _workers, max_workers, _progress_callbacks, wk,
                 stopper, files, removed>>
  /\ UNCHANGED <<web, kwik, codec, resolutions>>

\* ---------------------------------------------------------- start / stop
NewWorker == [pc |-> "idle", task |-> 0, must_cancel |-> FALSE, ni |-> 0,
              reraise |-> FALSE]

start ==
  IF _running
    THEN /\ UNCHANGED <<_running, _workers, wk>>
         /\ UNCHANGED <<tasks, queue, active_tasks, completed_tasks,
                        failed_tasks, max_workers, _progress_callbacks, adder,
                        stopper, files, delivered, removed, web, kwik, codec, resolutions>>
    ELSE /\ Len(wk) + max_workers <= MaxSpawn
         /\ _running' = TRUE
         /\ wk' = wk \o [i \in 1..max_workers |-> NewWorker]
         /\ _workers' = [i \in 1..max_workers |-> Len(wk) + i]
         /\ UNCHANGED <<tasks, queue, active_tasks, completed_tasks,
                        failed_tasks, max_workers, _progress_callbacks, adder,
                        stopper, files, delivered, removed, web, kwik, codec, resolutions>>

\* stop() up to asyncio.gather (or to its return when there is no worker)
stop ==
  /\ ~stopper.on
  /\ _running' = FALSE
  /\ wk' = [w \in DOMAIN wk |->
              IF w \in SeqToSet(_workers) /\ wk[w].pc # "done"
                THEN [wk[w] EXCEPT !.must_cancel = TRUE] ELSE wk[w]]
  /\ IF _workers = <<>>
       THEN /\ _workers' = <<>>
            /\ stopper' = NoStopper
       ELSE /\ _workers' = _workers
            /\ stopper' = [on |-> TRUE, waiting |-> SeqToSet(_workers),
                           inflight |-> ActiveRefs]
  /\ UNCHANGED <<tasks, queue, active_tasks, completed_tasks, failed_tasks,
                 max_workers, _progress_callbacks, adder, files, delivered,
                 removed>>
  /\ UNCHANGED <<web, kwik, codec, resolutions>>

\* gather has every awaited worker finished: self._workers = [] and return
stop_return ==
  /\ stopper.on
  /\ \A w \in stopper.waiting : wk[w].pc = "done"
  /\ _workers' = <<>>
  /\ stopper' = NoStopper
  /\ UNCHANGED <<tasks, queue, active_tasks, completed_tasks, failed_tasks,
                 _running, max_workers, _progress_callbacks, wk, adder, files,
                 delivered, removed>>
  /\ UNCHANGED <<web, kwik, codec, resolutions>>

\* ----------------------------------------------------------- cancel_task
RECURSIVE CancelScanKeepsFound(_, _, _)
\* the drain loop with the found item appended to items as well
CancelScanKeepsFound(q, task_id, acc) ==
  IF q = <<>> THEN acc
  ELSE LET item == Head(q)
       IN  IF tasks[item].id = task_id
             THEN CancelScanKeepsFound(Tail(q), task_id,
                                       [acc EXCEPT !.found = Append(@, item),
                                                   !.items = Append(@, item)])
             ELSE CancelScanKeepsFound(Tail(q), task_id,
                                       [acc EXCEPT !.items = Append(@, item)])

RECURSIVE CancelScan(_, _, _)
\* the drain loop of cancel_task: items kept for the refill, items found
CancelScan(q, task_id, acc) ==
  IF q = <<>> THEN acc
  ELSE LET item == Head(q)
       IN  IF tasks[item].id = task_id
             THEN CancelScan(Tail(q), task_id,
                             [acc EXCEPT !.found = Append(@, item)])
             ELSE CancelScan(Tail(q), task_id,
                             [acc EXCEPT !.items = Append(@, item)])

cancel_task(task_id) ==
  /\ IF task_id \in DOMAIN active_tasks
       THEN /\ tasks' = [tasks EXCEPT ![active_tasks[task_id]].status = "stopping"]
            /\ UNCHANGED <<queue, failed_tasks>>
       ELSE LET r == CancelScan(queue, task_id, [items |-> <<>>, found |-> <<>>])
            IN  /\ tasks' = [ref \in DOMAIN tasks |->
                              IF ref \in SeqToSet(r.found)
                                THEN [tasks[ref] EXCEPT
                                        !.status = "stopped",
                                        !.error = "Cancelled before starting"]
                                ELSE tasks[ref]]
                /\ failed_tasks' = failed_tasks \o r.found
                /\ queue' = r.items
  /\ UNCHANGED <<active_tasks, completed_tasks, _running, _workers,
                 max_workers, _progress_callbacks, wk, adder, stopper, files,
                 delivered, removed>>
  /\ UNCHANGED <<web, kwik, codec, resolutions>>

\* return True (line 320) / return found (line 343)
cancel_task_result(task_id) ==
  IF task_id \in DOMAIN active_tasks THEN TRUE
  ELSE CancelScan(queue, task_id, [items |-> <<>>, found |-> <<>>]).found # <<>>

\* ---------------------------------------------------------- retry_failed
\* list.remove(x): drops the first element equal to x (dataclass equality)
ListRemove(list, x, ts) ==
  LET hits == {i \in DOMAIN list : ts[list[i]] = ts[x]}
  IN  IF hits = {} THEN list
      ELSE LET k == CHOOSE i \in hits : \A j \in hits : i <= j
           IN  SubSeq(list, 1, k - 1) \o SubSeq(list, k + 1, Len(list))

RECURSIVE RetryLoopNoCopy(_, _)
\* the for loop run over failed_tasks itself instead of the copy: every
\* remove shifts the list under the iterator, which skips the next entry
RetryLoopNoCopy(copy, st) ==
  IF copy = <<>> THEN st
  ELSE LET task == st.tasks[Head(copy)]
           new_task == DownloadTask(uuid4(st.tasks), task.url, task.filename,
                                    task.anime_title, task.episode,
                                    task.resolution)
       IN  RetryLoopNoCopy(IF Len(copy) > 1 THEN Tail(Tail(copy)) ELSE <<>>,
                     [tasks |-> Append(st.tasks, new_task),
                      queue |-> Append(st.queue, Len(st.tasks) + 1),
                      failed_tasks |-> ListRemove(st.failed_tasks, Head(copy),
                                                  st.tasks),
                      retry_count |-> st.retry_count + 1])

RECURSIVE RetryLoop(_, _)
\* the for loop of retry_failed over the copy failed_tasks[:]
RetryLoop(copy, st) ==
  IF copy = <<>> THEN st
  ELSE LET task == st.tasks[Head(copy)]
           new_task == DownloadTask(uuid4(st.tasks), task.url, task.filename,
                                    task.anime_title, task.episode,
                                    task.resolution)
       IN  RetryLoop(Tail(copy),
                     [tasks |-> Append(st.tasks, new_task),
                      queue |-> Append(st.queue, Len(st.tasks) + 1),
                      failed_tasks |-> ListRemove(st.failed_tasks, Head(copy),
                                                  st.tasks),
                      retry_count |-> st.retry_count + 1])

retry_failed ==
  /\ LET r == RetryLoop(failed_tasks,
                        [tasks |-> tasks, queue |-> queue,
                         failed_tasks |-> failed_tasks, retry_count |-> 0])
     IN  /\ tasks' = r.tasks
         /\ queue' = r.queue
         /\ failed_tasks' = r.failed_tasks
         /\ delivered' = [c \in Callbacks |->
                            delivered[c] \o [i \in 1..r.retry_count |-> "none"]]
         /\ removed' = removed \cup
                         (SeqToSet(failed_tasks) \ SeqToSet(r.failed_tasks))
  /\ UNCHANGED <<active_tasks, completed_tasks, _running, _workers,
                 max_workers, _progress_callbacks, wk, adder, stopper, files>>
  /\ UNCHANGED <<web, kwik, codec, resolutions>>

\* return retry_count (line 362)
retry_failed_result ==
  RetryLoop(failed_tasks, [tasks |-> tasks, queue |-> queue,
                           failed_tasks |-> failed_tasks,
                           retry_count |-> 0]).retry_count

\* ------------------------------------------------------- clear_completed
clear_completed ==
  /\ completed_tasks' = <<>>
  /\ removed' = removed \cup SeqToSet(completed_tasks)
  /\ UNCHANGED <<tasks, queue, active_tasks, failed_tasks, _running, _workers,
                 max_workers, _progress_callbacks, wk, adder, stopper, files,
                 delivered>>
  /\ UNCHANGED <<web, kwik, codec, resolutions>>

\* ------------------------------------------------------------ get_status
HistoryShown == 10

\* _task_to_dict (speed is not modelled)
_task_to_dict(t) ==
  [id |-> t.id, filename |-> t.filename, anime_title |-> t.anime_title,
   episode |-> t.episode, resolution |-> t.resolution, status |-> t.status,
   progress |-> t.progress, downloaded_bytes |-> t.downloaded_bytes,
   total_bytes |-> t.total_bytes, error |-> t.error]

\* list[-n:]
LastN(list, n) ==
  IF Len(list) <= n THEN list ELSE SubSeq(list, Len(list) - n + 1, Len(list))

RECURSIVE DrainReversed(_, _)
\* the drain loop with items.insert(0, item) in place of items.append(item)
DrainReversed(q, items) ==
  IF q = <<>> THEN items
  ELSE DrainReversed(Tail(q), <<Head(q)>> \o items)

RECURSIVE Drain(_, _)
\* while not self.queue.empty(): items.append(self.queue.get_nowait())
Drain(q, items) ==
  IF q = <<>> THEN items
  ELSE Drain(Tail(q), Append(items, Head(q)))

RECURSIVE Refill(_, _)
\* for item in items: self.queue.put_nowait(item)
Refill(items, q) ==
  IF items = <<>> THEN q
  ELSE Refill(Tail(items), Append(q, Head(items)))

\* the dictionary get_status returns
get_status_result ==
  LET items == Drain(queue, <<>>)
      q == Refill(items, <<>>)
  IN  [running |-> _running,
       max_workers |-> max_workers,
       pending_count |-> Len(q),
       active_count |-> Cardinality(DOMAIN active_tasks),
       completed_count |-> Len(completed_tasks),
       failed_count |-> Len(failed_tasks),
       active |-> {_task_to_dict(tasks[active_tasks[k]]) : k \in DOMAIN active_tasks},
       pending |-> [i \in DOMAIN items |-> _task_to_dict(tasks[items[i]])],
       completed |-> [i \in DOMAIN LastN(completed_tasks, HistoryShown) |->
                       _task_to_dict(tasks[LastN(completed_tasks, HistoryShown)[i]])],
       failed |-> [i \in DOMAIN LastN(failed_tasks, HistoryShown) |->
                    _task_to_dict(tasks[LastN(failed_tasks, HistoryShown)[i]])]]

\* get_status is a plain function: it runs from its first line to its return
\* without giving the event loop a chance to run anything else
get_status ==
  /\ queue' = Refill(Drain(queue, <<>>), <<>>)
  /\ UNCHANGED <<tasks, active_tasks, completed_tasks, failed_tasks, _running,
                 _workers, max_workers, _progress_callbacks, wk, adder,
                 stopper, files, delivered, removed>>
  /\ UNCHANGED <<web, kwik, codec, resolutions>>

\* PUT /settings with max_workers given and no download_path (routes.py
\* L438-462): the attribute is assigned, the worker tasks are left as they are
update_settings(request_max_workers) ==
  /\ max_workers' = request_max_workers
  /\ UNCHANGED <<tasks, queue, active_tasks, completed_tasks, failed_tasks,
                 _running, _workers, _progress_callbacks, wk, adder, stopper,
                 files, delivered, removed>>
  /\ UNCHANGED <<web, kwik, codec, resolutions>>

\* ----------------------------------------------------- worker coroutines
DictSet(d, k, v) == [x \in DOMAIN d \cup {k} |-> IF x = k THEN v ELSE d[x]]
DictDel(d, k) == [x \in DOMAIN d \ {k} |-> d[x]]

\* the worker is resumed normally (no CancelledError is being thrown into it)
Runs(w, pcs) == wk[w].pc \in pcs /\ ~wk[w].must_cancel

\* (the worker leaves its loop after a task that did not complete)
LoopTop_break(w, reraise) ==
  [pc |-> IF reraise \/ tasks'[wk[w].task].status # "completed" THEN "done"
          ELSE IF _running THEN "idle" ELSE "done",
   task |-> 0, must_cancel |-> FALSE, ni |-> 0, reraise |-> FALSE]

\* _worker after _download_file returned or raised: queue.task_done() and the
\* while self._running test, or the break on CancelledError
LoopTop(w, reraise) ==
  [pc |-> IF reraise THEN "done" ELSE IF _running THEN "idle" ELSE "done",
   task |-> 0, must_cancel |-> FALSE, ni |-> 0, reraise |-> FALSE]

\* the finally block of _download_file for the task fields ts: leave the
\* active set, publish; the worker suspends in the first callback if any
Finally(w, ts, reraise) ==
  LET ref == wk[w].task
  IN  /\ tasks' = ts
      /\ active_tasks' = IF ts[ref].id \in DOMAIN active_tasks
                           THEN DictDel(active_tasks, ts[ref].id)
                           ELSE active_tasks
      /\ delivered' = NotifyStartDelivered(delivered, ref, ts)
      /\ wk' = [wk EXCEPT ![w] =
                  IF NotifyStart = 0 THEN LoopTop(w, reraise)
                  ELSE [pc |-> "notify_final", task |-> ref,
                        must_cancel |-> FALSE, ni |-> 1, reraise |-> reraise]]

\* worker_take on a last-in first-out queue
worker_take_lifo(w) ==
  /\ Runs(w, {"idle"})
  /\ queue # <<>>
  /\ LET ref == queue[Len(queue)]
         ts == [tasks EXCEPT ![ref].status = "downloading",
                             ![ref].started_at = TRUE]
     IN  /\ queue' = SubSeq(queue, 1, Len(queue) - 1)
         /\ tasks' = ts
         /\ active_tasks' = DictSet(active_tasks, ts[ref].id, ref)
         /\ delivered' = NotifyStartDelivered(delivered, ref, ts)
         /\ wk' = [wk EXCEPT ![w] =
                     [pc |-> IF NotifyStart = 0 THEN "connect" ELSE "notify_start",
                      task |-> ref, must_cancel |-> FALSE, ni |-> NotifyStart,
                      reraise |-> FALSE]]
  /\ UNCHANGED <<completed_tasks, failed_tasks, _running, _workers,
                 max_workers, _progress_callbacks, adder, stopper, files,
                 removed>>
  /\ UNCHANGED <<web, kwik, codec, resolutions>>

\* worker_take reading the head of the queue without removing it
worker_take_peek(w) ==
  /\ Runs(w, {"idle"})
  /\ queue # <<>>
  /\ LET ref == Head(queue)
         ts == [tasks EXCEPT ![ref].status = "downloading",
                             ![ref].started_at = TRUE]
     IN  /\ queue' = queue
         /\ tasks' = ts
         /\ active_tasks' = DictSet(active_tasks, ts[ref].id, ref)
         /\ delivered' = NotifyStartDelivered(delivered, ref, ts)
         /\ wk' = [wk EXCEPT ![w] =
                     [pc |-> IF NotifyStart = 0 THEN "connect" ELSE "notify_start",
                      task |-> ref, must_cancel |-> FALSE, ni |-> NotifyStart,
                      reraise |-> FALSE]]
  /\ UNCHANGED <<completed_tasks, failed_tasks, _running, _workers,
                 max_workers, _progress_callbacks, adder, stopper, files,
                 removed>>
  /\ UNCHANGED <<web, kwik, codec, resolutions>>

\* queue.get() returns an item: _download_file lines 136-139
worker_take(w) ==
  /\ Runs(w, {"idle"})
  /\ queue # <<>>
  /\ LET ref == Head(queue)
         ts == [tasks EXCEPT ![ref].status = "downloading",
                             ![ref].started_at = TRUE]
     IN  /\ queue' = Tail(queue)
         /\ tasks' = ts
         /\ active_tasks' = DictSet(active_tasks, ts[ref].id, ref)
         /\ delivered' = NotifyStartDelivered(delivered, ref, ts)
         /\ wk' = [wk EXCEPT ![w] =
                     [pc |-> IF NotifyStart = 0 THEN "connect" ELSE "notify_start",
                      task |-> ref, must_cancel |-> FALSE, ni |-> NotifyStart,
                      reraise |-> FALSE]]
  /\ UNCHANGED <<completed_tasks, failed_tasks, _running, _workers,
                 max_workers, _progress_callbacks, adder, stopper, files,
                 removed>>
  /\ UNCHANGED <<web, kwik, codec, resolutions>>

\* the wait on the queue times out and the loop test finds _running False
worker_exit(w) ==
  /\ Runs(w, {"idle"})
  /\ ~_running
  /\ wk' = [wk EXCEPT ![w].pc = "done"]
  /\ UNCHANGED <<tasks, queue, active_tasks, completed_tasks, failed_tasks,
                 _running, _workers, max_workers, _progress_callbacks, adder,
                 stopper, files, delivered, removed>>
  /\ UNCHANGED <<web, kwik, codec, resolutions>>

\* resumed inside _notify_progress: call the next callback, or return to
\* the caller's next line
worker_notify(w) ==
  /\ Runs(w, {"notify_start", "notify_progress", "notify_final"})
  /\ IF wk[w].ni < Len(_progress_callbacks)
       THEN /\ delivered' = Invoke(delivered, wk[w].ni + 1, wk[w].task, tasks)
            /\ wk' = [wk EXCEPT ![w].ni = @ + 1]
       ELSE /\ delivered' = delivered
            /\ wk' = [wk EXCEPT ![w] =
                        IF wk[w].pc = "notify_start"
                          THEN [wk[w] EXCEPT !.pc = "connect", !.ni = 0]
                        ELSE IF wk[w].pc = "notify_progress"
                          THEN [wk[w] EXCEPT !.pc = "read", !.ni = 0]
                        ELSE LoopTop(w, wk[w].reraise)]
  /\ UNCHANGED <<tasks, queue, active_tasks, completed_tasks, failed_tasks,
                 _running, _workers, max_workers, _progress_callbacks, adder,
                 stopper, files, removed>>
  /\ UNCHANGED <<web, kwik, codec, resolutions>>

\* lines 143-167: folder, request, response headers, destination file opened.
\* response: the headers the server sends for task.url
worker_connect(w, response) ==
  /\ Runs(w, {"connect"})
  /\ LET ref == wk[w].task
         ts == [tasks EXCEPT
                  ![ref].filename = IF response.name = None THEN @
                                    ELSE _sanitize_filename(response.name),
                  ![ref].total_bytes = response.length]
     IN  /\ response.url = tasks[ref].url
         /\ CanOpen(ts[ref].filename)
         /\ tasks' = ts
         /\ files' = files \cup {FilePath(ts[ref])}
         /\ wk' = [wk EXCEPT ![w].pc = "read"]
  /\ UNCHANGED <<queue, active_tasks, completed_tasks, failed_tasks, _running,
                 _workers, max_workers, _progress_callbacks, adder, stopper,
                 delivered, removed>>
  /\ UNCHANGED <<web, kwik, codec, resolutions>>

\* lines 168-198: a chunk arrives.  publish: a second has passed since the
\* last update
worker_chunk(w, publish) ==
  /\ Runs(w, {"read"})
  /\ LET ref == wk[w].task
         t == tasks[ref]
     IN  /\ t.downloaded_bytes < MaxChunks
         /\ t.total_bytes = 0 \/ t.downloaded_bytes < t.total_bytes
         /\ IF t.status = "stopping"
              THEN /\ publish = FALSE
                   /\ tasks' = [tasks EXCEPT
                                  ![ref].status = "stopped",
                                  ![ref].error = "Download stopped by user"]
                   /\ failed_tasks' = Append(failed_tasks, ref)
                   /\ wk' = [wk EXCEPT ![w].pc = "stop_close"]
                   /\ delivered' = delivered
              ELSE LET n == t.downloaded_bytes + 1
                       ts == [tasks EXCEPT
                                ![ref].downloaded_bytes = n,
                                ![ref].progress =
                                   IF t.total_bytes > 0
                                     THEN (n * 100) \div t.total_bytes ELSE @]
                   IN  /\ tasks' = ts
                       /\ failed_tasks' = failed_tasks
                       /\ IF publish /\ NotifyStart # 0
                            THEN /\ delivered' = NotifyStartDelivered(delivered, ref, ts)
                                 /\ wk' = [wk EXCEPT ![w].pc = "notify_progress",
                                                     ![w].ni = 1]
                            ELSE /\ delivered' = delivered
                                 /\ wk' = wk
  /\ UNCHANGED <<queue, active_tasks, completed_tasks, _running, _workers,
                 max_workers, _progress_callbacks, adder, stopper, files,
                 removed>>
  /\ UNCHANGED <<web, kwik, codec, resolutions>>

\* the stream ends and the with blocks exit: lines 200-203 and finally
worker_eof(w) ==
  /\ Runs(w, {"read"})
  /\ LET ref == wk[w].task
         t == tasks[ref]
     IN  /\ t.total_bytes = 0 \/ t.downloaded_bytes = t.total_bytes
         /\ completed_tasks' = Append(completed_tasks, ref)
         /\ Finally(w, [tasks EXCEPT ![ref].status = "completed",
                                     ![ref].progress = 100], FALSE)
  /\ UNCHANGED <<queue, failed_tasks, _running, _workers, max_workers,
                 _progress_callbacks, adder, stopper, files, removed>>
  /\ UNCHANGED <<web, kwik, codec, resolutions>>

\* lines 168-198 for a response that carries a Content-Encoding: the chunks
\* of aiter_bytes are decoded bytes, n of them in this chunk, while
\* Content-Length (total_bytes) counts the encoded bytes on the wire, so the
\* transport's framing does not tie the one to the other
worker_chunk_decoded(w, publish, n) ==
  /\ Runs(w, {"read"})
  /\ LET ref == wk[w].task
         t == tasks[ref]
     IN  /\ t.downloaded_bytes + n <= MaxDecoded
         /\ IF t.status = "stopping"
              THEN /\ publish = FALSE
                   /\ tasks' = [tasks EXCEPT
                                  ![ref].status = "stopped",
                                  ![ref].error = "Download stopped by user"]
                   /\ failed_tasks' = Append(failed_tasks, ref)
                   /\ wk' = [wk EXCEPT ![w].pc = "stop_close"]
                   /\ delivered' = delivered
              ELSE LET d == t.downloaded_bytes + n
                       ts == [tasks EXCEPT
                                ![ref].downloaded_bytes = d,
                                ![ref].progress =
                                   IF t.total_bytes > 0
                                     THEN (d * 100) \div t.total_bytes ELSE @]
                   IN  /\ tasks' = ts
                       /\ failed_tasks' = failed_tasks
                       /\ IF publish /\ NotifyStart # 0
                            THEN /\ delivered' = NotifyStartDelivered(delivered, ref, ts)
                                 /\ wk' = [wk EXCEPT ![w].pc = "notify_progress",
                                                     ![w].ni = 1]
                            ELSE /\ delivered' = delivered
                                 /\ wk' = wk
  /\ UNCHANGED <<queue, active_tasks, completed_tasks, _running, _workers,
                 max_workers, _progress_callbacks, adder, stopper, files,
                 removed>>
  /\ UNCHANGED <<web, kwik, codec, resolutions>>

\* the decoded stream of such a response ends: lines 200-203 and finally
worker_eof_decoded(w) ==
  /\ Runs(w, {"read"})
  /\ LET ref == wk[w].task
     IN  /\ completed_tasks' = Append(completed_tasks, ref)
         /\ Finally(w, [tasks EXCEPT ![ref].status = "completed",
                                     ![ref].progress = 100], FALSE)
  /\ UNCHANGED <<queue, failed_tasks, _running, _workers, max_workers,
                 _progress_callbacks, adder, stopper, files, removed>>
  /\ UNCHANGED <<web, kwik, codec, resolutions>>

\* except Exception (lines 217-220) and finally: makedirs, the request, a
\* read, a write or a context exit raised
\* text: str(e) of the exception raised
worker_raise(w, text) ==
  /\ Runs(w, {"connect", "read", "stop_exit"})
  /\ LET ref == wk[w].task
     IN  /\ failed_tasks' = Append(failed_tasks, ref)
         /\ Finally(w, [tasks EXCEPT ![ref].status = "failed",
                                     ![ref].error = text], FALSE)
  /\ UNCHANGED <<queue, completed_tasks, _running, _workers, max_workers,
                 _progress_callbacks, adder, stopper, files, removed>>
  /\ UNCHANGED <<web, kwik, codec, resolutions>>

\* an exception whose text is not looked at
worker_error(w) == worker_raise(w, "error")

\* str(e) of what the transfer can raise: an httpx timeout carries no
\* message (its text is empty); a status error or an OSError carries one
ErrorTexts == {"", "error"}

\* lines 175-181: await f.close() returns (closed) and the partial file is
\* removed, or it raises and the bare except swallows the error; then return
worker_stop_close(w, closed) ==
  /\ Runs(w, {"stop_close"})
  /\ files' = IF closed THEN files \ {FilePath(tasks[wk[w].task])} ELSE files
  /\ wk' = [wk EXCEPT ![w].pc = "stop_exit"]
  /\ UNCHANGED <<tasks, queue, active_tasks, completed_tasks, failed_tasks,
                 _running, _workers, max_workers, _progress_callbacks, adder,
                 stopper, delivered, removed>>
  /\ UNCHANGED <<web, kwik, codec, resolutions>>

\* the with blocks exit after the return of line 181; finally
worker_stop_exit(w) ==
  /\ Runs(w, {"stop_exit"})
  /\ Finally(w, tasks, FALSE)
  /\ UNCHANGED <<queue, completed_tasks, failed_tasks, _running, _workers,
                 max_workers, _progress_callbacks, adder, stopper, files,
                 removed>>
  /\ UNCHANGED <<web, kwik, codec, resolutions>>

\* worker.cancel() of stop() takes effect: CancelledError is thrown into the
\* worker at the await it is suspended in
worker_cancelled(w) ==
  /\ wk[w].must_cancel
  /\ wk[w].pc # "done"
  /\ LET ref == wk[w].task
     IN  CASE wk[w].pc \in {"idle", "notify_start", "notify_final"} ->
                \* not inside the try of _download_file: propagates to the
                \* except CancelledError: break of _worker
                /\ wk' = [wk EXCEPT ![w] = [@ EXCEPT !.pc = "done",
                                                     !.must_cancel = FALSE]]
                /\ UNCHANGED <<tasks, active_tasks, failed_tasks, files,
                               delivered>>
          [] wk[w].pc = "stop_close" ->
                \* inside try/bare except of lines 175-180: swallowed
                /\ wk' = [wk EXCEPT ![w] = [@ EXCEPT !.pc = "stop_exit",
                                                     !.must_cancel = FALSE]]
                /\ UNCHANGED <<tasks, active_tasks, failed_tasks, files,
                               delivered>>
          [] OTHER ->
                \* except asyncio.CancelledError, lines 205-215, and finally
                /\ failed_tasks' = Append(failed_tasks, ref)
                /\ files' = IF wk[w].pc = "connect" THEN files
                            ELSE files \ {FilePath(tasks[ref])}
                /\ Finally(w, [tasks EXCEPT ![ref].status = "stopped",
                                            ![ref].error = "Download stopped"],
                           TRUE)
  /\ UNCHANGED <<queue, completed_tasks, _running, _workers, max_workers,
                 _progress_callbacks, adder, stopper, removed>>
  /\ UNCHANGED <<web, kwik, codec, resolutions>>

\* ------------------------------------------- extract_download_link steps
\* extract_download_link is called and sends its first request (L240)
extract_download_link(pahe_embed_url) ==
  /\ kwik.pc = "idle"
  /\ kwik' = [kwik EXCEPT !.pc = "embed", !.pahe_embed_url = pahe_embed_url,
                          !.attempt = 0]
  /\ UNCHANGED <<manager, _progress_callbacks, web, codec, resolutions>>

\* the call c after the GET of its embed page was answered (L240-274)
EmbedAnswered(c, response) ==
  LET k == Sent(c, Exchange("GET", c.pahe_embed_url, <<>>, <<>>, <<>>,
                            response))
      fetched == _fetch_with_retry(c.attempt, response)
      kwik_url == EmbedPageOf[response]
  IN  IF fetched = "again" THEN [k EXCEPT !.attempt = @ + 1]
      ELSE IF fetched = "raise"
      THEN End(k, KwikDecodeError("Failed to fetch"))
      ELSE IF kwik_url.raised # None THEN End(k, kwik_url)
      ELSE decode_kwik_page(k, kwik_url.value, KwikRetries)

\* the call c after the GET of the intermediate page was answered (L174-215)
PageAnswered(c, response) ==
  LET k == Sent(c, Exchange("GET", c.kwik_url, <<>>, <<>>, <<>>, response))
      fetched == _fetch_with_retry(c.attempt, response)
      page == KwikPageOf[response]
  IN  IF fetched = "again" THEN [k EXCEPT !.attempt = @ + 1]
      ELSE IF fetched = "raise"
      THEN End(k, KwikDecodeError("Failed to fetch"))
      ELSE IF page.next = "retry"
      THEN decode_kwik_page([k EXCEPT !.misses = @ + 1], k.kwik_url,
                            k.retries - 1)
      ELSE IF page.next = "except" THEN except_Exception(k)
      ELSE [k EXCEPT !.pc = "post", !.form_action = page.form_action,
                     !.token = page.token,
                     !.session_cookie = page.session_cookie]

\* the call c after the token POST of fetch_direct_link was answered
\* (L139-151, L215-223)
PostAnswered(c, response) ==
  LET k == Sent(c, Exchange("POST", c.form_action, c.form_action,
                            c.session_cookie, c.token, response))
      direct == fetch_direct_link(response)
  IN  IF direct.raised \in {None, "KwikDecodeError"} THEN End(k, direct)
      ELSE except_Exception(k)

\* the GET of the embed page is answered (L240-274)
embed_answered(response) ==
  /\ kwik.pc = "embed"
  /\ kwik' = EmbedAnswered(kwik, response)
  /\ UNCHANGED <<manager, _progress_callbacks, web, codec, resolutions>>

\* (a cookie of an earlier attempt kept when the page sets none)
page_answered_stale(response) ==
  /\ kwik.pc = "page"
  /\ LET k == Sent(kwik, Exchange("GET", kwik.kwik_url, <<>>, <<>>, <<>>,
                                  response))
         fetched == _fetch_with_retry(kwik.attempt, response)
         page == KwikPageOf[response]
     IN  kwik' =
           IF fetched = "again" THEN [k EXCEPT !.attempt = @ + 1]
           ELSE IF fetched = "raise"
           THEN End(k, KwikDecodeError("Failed to fetch"))
           ELSE IF page.next = "retry"
           THEN decode_kwik_page([k EXCEPT !.misses = @ + 1], k.kwik_url,
                                 k.retries - 1)
           ELSE IF page.next = "except" THEN except_Exception(k)
           ELSE [k EXCEPT !.pc = "post", !.form_action = page.form_action,
                          !.token = page.token,
                          !.session_cookie =
                            IF page.session_cookie = <<>> THEN @
                            ELSE page.session_cookie]
  /\ UNCHANGED <<manager, _progress_callbacks, web, codec, resolutions>>

\* the GET of the intermediate page is answered (L174-215)
page_answered(response) ==
  /\ kwik.pc = "page"
  /\ kwik' = PageAnswered(kwik, response)
  /\ UNCHANGED <<manager, _progress_callbacks, web, codec, resolutions>>

\* the token POST of fetch_direct_link is answered (L139-151, L215-223)
post_answered(response) ==
  /\ kwik.pc = "post"
  /\ kwik' = PostAnswered(kwik, response)
  /\ UNCHANGED <<manager, _progress_callbacks, web, codec, resolutions>>

\* the site of the resolution scenario: the pages are served and the token
\* POST is answered with a redirect, but for at most MaxFailures requests
\* that fail
NextResolve ==
  \/ extract_download_link(EmbedUrl)
  \/ kwik.pc = "embed" /\ \E response \in EmbedAnswers : embed_answered(response)
  \/ kwik.pc = "page" /\ \E response \in KwikAnswers : page_answered(response)
  \/ kwik.pc = "post" /\ \E response \in PostAnswers : post_answered(response)
  \/ /\ Cardinality(Failed(kwik)) < MaxFailures
     /\ \E response \in Failures :
          \/ embed_answered(response)
          \/ page_answered(response)
          \/ response = TransportError /\ post_answered(response)

SpecResolve == Init /\ [][NextResolve]_vars

\* a manager at rest, and a call whose exchanges are counted, not recorded
InitSite ==
  /\ tasks = <<>>
  /\ queue = <<>>
  /\ active_tasks = EmptyDict
  /\ completed_tasks = <<>>
  /\ failed_tasks = <<>>
  /\ _running = FALSE
  /\ _workers = <<>>
  /\ max_workers = 1
  /\ _progress_callbacks = <<>>
  /\ wk = <<>>
  /\ adder = NoAdder
  /\ stopper = NoStopper
  /\ files = {}
  /\ delivered = [c \in Callbacks |-> <<>>]
  /\ removed = {}
  /\ connected_websockets = {}
  /\ bus = NoBus
  /\ kwik = NoCallUnlogged
  /\ codec = NoCodec
  /\ resolutions = <<>>

\* any site: every request is answered by any of the site's answers
NextSite ==
  \/ extract_download_link(EmbedUrl)
  \/ kwik.pc = "embed"
     /\ \E response \in SiteEmbedAnswers : embed_answered(response)
  \/ kwik.pc = "page"
     /\ \E response \in SiteKwikAnswers : page_answered(response)
  \/ kwik.pc = "post"
     /\ \E response \in SitePostAnswers : post_answered(response)

SpecSite == InitSite /\ [][NextSite]_vars

\* A site whose intermediate page comes with a different Set-Cookie header,
\* or none, at each fetch, and whose token POST is answered with a redirect
\* or fails in the transport
NextCookie ==
  \/ extract_download_link(EmbedUrl)
  \/ kwik.pc = "embed"
     /\ \E response \in EmbedAnswers : embed_answered(response)
  \/ kwik.pc = "page"
     /\ \E response \in CookieAnswers : page_answered(response)
  \/ kwik.pc = "post"
     /\ \E response \in PostAnswers \cup {TransportError} :
          post_answered(response)

SpecCookie == Init /\ [][NextCookie]_vars

\* --------------------------------------------- the decoder's pure functions
\* a call of one of them, not yet made
Call(fn, args) == [NoCodec EXCEPT !.fn = fn, !.args = args]

RECURSIVE TextsOfLen(_, _)
\* the texts of n characters of the set
TextsOfLen(chars, n) ==
  IF n = 0 THEN {<<>>}
  ELSE {Append(t, c) : t \in TextsOfLen(chars, n - 1), c \in chars}

\* numerals of 1..MaxDigits digits in base b: those made of the two
\* smallest and the two largest digits of the base
Numerals(b) ==
  UNION {TextsOfLen({base_alphabet[i] : i \in {1, 2, b - 1, b}}, n) :
           n \in 1..MaxDigits}
\* the encoded texts of up to MaxEncoded characters, some of the key, one not
Encodings == UNION {TextsOfLen({"w", "x", "z", "q"}, n) : n \in 0..MaxEncoded}

\* the calls made: a numeral converted from its base to the same base, for
\* every base of the alphabet; a text decoded with a 4-character key, a
\* base inside or outside its indices and a small offset; an embed page
\* searched for its link
CodecCalls ==
  {Call(fn, <<input_str, b, b>>) :
     fn \in {"_base_convert", "_0xe16c"},
     <<input_str, b>> \in UNION {Numerals(b) \X {b} : b \in 2..64}}
  \cup {Call(fn, <<encoded, Key4, offset, base>>) :
          fn \in {"decode_obfuscated_js", "decode_js_style"},
          encoded \in Encodings, offset \in {0, 1}, base \in 2..4}
  \cup {Call(fn, <<response>>) :
          fn \in {"extract_download_link", "extract_kwik_link"},
          response \in SiteEmbedAnswers \ {TransportError}}

\* what the function gives for the arguments
Apply(fn, args) ==
  CASE fn = "_base_convert" -> _base_convert(args[1], args[2], args[3])
    [] fn = "_0xe16c" -> _0xe16c(args[1], args[2], args[3])
    [] fn = "decode_obfuscated_js" ->
         decode_obfuscated_js(args[1], args[2], args[3], args[4])
    [] fn = "decode_js_style" ->
         decode_js_style(args[1], args[2], args[3], args[4])
    [] fn = "extract_download_link" -> EmbedPage(args[1])
    [] fn = "extract_kwik_link" -> extract_kwik_link(args[1])

\* the call is made
called ==
  /\ ~codec.done
  /\ codec' = [codec EXCEPT !.done = TRUE, !.out = Apply(codec.fn, codec.args)]
  /\ UNCHANGED <<manager, _progress_callbacks, web, kwik, resolutions>>

\* a manager at rest, no resolution, and one call to make
InitCodec ==
  /\ tasks = <<>>
  /\ queue = <<>>
  /\ active_tasks = EmptyDict
  /\ completed_tasks = <<>>
  /\ failed_tasks = <<>>
  /\ _running = FALSE
  /\ _workers = <<>>
  /\ max_workers = 1
  /\ _progress_callbacks = <<>>
  /\ wk = <<>>
  /\ adder = NoAdder
  /\ stopper = NoStopper
  /\ files = {}
  /\ delivered = [c \in Callbacks |-> <<>>]
  /\ removed = {}
  /\ connected_websockets = {}
  /\ bus = NoBus
  /\ kwik = NoCall
  /\ codec \in CodecCalls
  /\ resolutions = <<>>

NextCodec == called

SpecCodec == InitCodec /\ [][NextCodec]_vars

\* every request is answered or fails within the timeout of the caller's
\* client (animepahe.py L454), and the sleeps between attempts end (L110,
\* L193, L208, L221)
SpecSiteLive == SpecSite /\ WF_vars(NextSite)

\* ---------------------------------------------------------- specification
Next ==
  \/ \E c \in Callbacks : tasks = <<>> /\ add_progress_callback(c)
  \/ \E req \in Requests : Len(tasks) < MaxTasks /\ add_task(req)
  \/ add_task_notify
  \/ start
  \/ stop
  \/ stop_return
  \/ \E task_id \in 0..Len(tasks) : cancel_task(task_id)
  \/ Len(tasks) + Len(failed_tasks) <= MaxTasks /\ retry_failed
  \/ clear_completed
  \/ \E w \in DOMAIN wk : worker_take(w)
  \/ \E w \in DOMAIN wk : worker_exit(w)
  \/ \E w \in DOMAIN wk : worker_notify(w)
  \/ \E w \in DOMAIN wk, response \in Responses : worker_connect(w, response)
  \/ \E w \in DOMAIN wk, publish \in BOOLEAN : worker_chunk(w, publish)
  \/ \E w \in DOMAIN wk : worker_eof(w)
  \/ \E w \in DOMAIN wk : worker_error(w)
  \/ \E w \in DOMAIN wk, closed \in BOOLEAN : worker_stop_close(w, closed)
  \/ \E w \in DOMAIN wk : worker_stop_exit(w)
  \/ \E w \in DOMAIN wk : worker_cancelled(w)

Spec == Init /\ [][Next]_vars

\* A pool that is started and kept running, with no progress subscriber:
\* no callback is ever awaited and no worker is ever cancelled.
NextPool ==
  \/ \E req \in Requests : Len(tasks) < PoolTasks /\ add_task(req)
  \/ start
  \/ \E task_id \in 0..Len(tasks) : cancel_task(task_id)
  \/ Len(tasks) + Len(failed_tasks) <= PoolTasks /\ retry_failed
  \/ clear_completed
  \/ \E w \in DOMAIN wk : worker_take(w)
  \/ \E w \in DOMAIN wk, response \in Responses : worker_connect(w, response)
  \/ \E w \in DOMAIN wk, publish \in BOOLEAN : worker_chunk(w, publish)
  \/ \E w \in DOMAIN wk : worker_eof(w)
  \/ \E w \in DOMAIN wk : worker_error(w)
  \/ \E w \in DOMAIN wk, closed \in BOOLEAN : worker_stop_close(w, closed)
  \/ \E w \in DOMAIN wk : worker_stop_exit(w)

SpecPool == Init /\ [][NextPool]_vars

\* A pool of exactly one worker that is started and left running: tasks are
\* added and downloaded, with or without a subscriber; no cancel_task, no
\* retry_failed, no stop.
InitFIFO == Init /\ max_workers = 1
NextFIFO ==
  \/ \E c \in Callbacks : tasks = <<>> /\ add_progress_callback(c)
  \/ \E req \in Requests : Len(tasks) < PoolTasks /\ add_task(req)
  \/ add_task_notify
  \/ start
  \/ \E w \in DOMAIN wk : worker_take(w)
  \/ \E w \in DOMAIN wk : worker_notify(w)
  \/ \E w \in DOMAIN wk, response \in Responses : worker_connect(w, response)
  \/ \E w \in DOMAIN wk, publish \in BOOLEAN : worker_chunk(w, publish)
  \/ \E w \in DOMAIN wk : worker_eof(w)
  \/ \E w \in DOMAIN wk : worker_error(w)

SpecFIFO == InitFIFO /\ [][NextFIFO]_vars

\* One worker serving the queue while tasks are added and status is polled.
NextStatus ==
  \/ \E req \in Requests : Len(tasks) < PoolTasks /\ add_task(req)
  \/ start
  \/ get_status
  \/ \E w \in DOMAIN wk : worker_take(w)
  \/ \E w \in DOMAIN wk, response \in Responses : worker_connect(w, response)
  \/ \E w \in DOMAIN wk, publish \in BOOLEAN : worker_chunk(w, publish)
  \/ \E w \in DOMAIN wk : worker_eof(w)
  \/ \E w \in DOMAIN wk : worker_error(w)

SpecStatus == InitFIFO /\ [][NextStatus]_vars

\* One worker downloading from a server that answers with a Content-Encoding
\* (the client of line 145 announces Accept-Encoding by default).
NextEncoded ==
  \/ \E req \in Requests : Len(tasks) < PoolTasks /\ add_task(req)
  \/ start
  \/ \E w \in DOMAIN wk : worker_take(w)
  \/ \E w \in DOMAIN wk, response \in Responses : worker_connect(w, response)
  \/ \E w \in DOMAIN wk, publish \in BOOLEAN, n \in 1..MaxDecoded :
       worker_chunk_decoded(w, publish, n)
  \/ \E w \in DOMAIN wk : worker_eof_decoded(w)
  \/ \E w \in DOMAIN wk : worker_error(w)

SpecEncoded == InitFIFO /\ [][NextEncoded]_vars

\* One worker serving a long run of requests for the same episode, each
\* transfer completing or failing.
NextHistory ==
  \/ \E req \in Requests :
       req.url = "u1" /\ Len(tasks) < HistoryTasks /\ add_task(req)
  \/ start
  \/ \E w \in DOMAIN wk : worker_take(w)
  \/ \E w \in DOMAIN wk, response \in Responses : worker_connect(w, response)
  \/ \E w \in DOMAIN wk : worker_chunk(w, FALSE)
  \/ \E w \in DOMAIN wk : worker_eof(w)
  \/ \E w \in DOMAIN wk : wk[w].pc = "connect" /\ worker_error(w)

SpecHistory == InitFIFO /\ [][NextHistory]_vars

\* The progress bus on its own: handlers are subscribed, websocket clients
\* come and go, and events are published one after the other.
NextBus ==
  \/ \E c \in BusCallbacks : bus.published = 0 /\ add_progress_callback(c)
  \/ \E ws \in Sockets : websocket_connect(ws)
  \/ \E ws \in Sockets : websocket_broken(ws)
  \/ \E ws \in Sockets : websocket_closed(ws)
  \/ notify_begin
  \/ \E ok \in BOOLEAN : notify_callback(ok)
  \/ send_json_done

SpecBus == Init /\ [][NextBus]_vars

\* One worker whose transfers complete or raise, with the text of the
\* exception kept.
NextError ==
  \/ \E req \in Requests : Len(tasks) < PoolTasks /\ add_task(req)
  \/ start
  \/ \E w \in DOMAIN wk : worker_take(w)
  \/ \E w \in DOMAIN wk, response \in Responses : worker_connect(w, response)
  \/ \E w \in DOMAIN wk, publish \in BOOLEAN : worker_chunk(w, publish)
  \/ \E w \in DOMAIN wk : worker_eof(w)
  \/ \E w \in DOMAIN wk, text \in ErrorTexts : worker_raise(w, text)

SpecError == InitFIFO /\ [][NextError]_vars

\* A pool of two workers
InitPair ==
  /\ tasks = <<>>
  /\ queue = <<>>
  /\ active_tasks = EmptyDict
  /\ completed_tasks = <<>>
  /\ failed_tasks = <<>>
  /\ _running = FALSE
  /\ _workers = <<>>
  /\ max_workers = 2
  /\ _progress_callbacks = <<>>
  /\ wk = <<>>
  /\ adder = NoAdder
  /\ stopper = NoStopper
  /\ files = {}
  /\ delivered = [c \in Callbacks |-> <<>>]
  /\ removed = {}
  /\ connected_websockets = {}
  /\ bus = NoBus
  /\ kwik = NoCall
  /\ codec = NoCodec
  /\ resolutions = <<>>

\* Two workers serving a queue of requests for the same episode while status
\* is polled and pending or active tasks are cancelled.
NextAdmit ==
  \/ \E req \in Requests :
       req.url = "u1" /\ Len(tasks) < PoolTasks /\ add_task(req)
  \/ start
  \/ get_status
  \/ \E task_id \in 1..Len(tasks) : cancel_task(task_id)
  \/ \E w \in DOMAIN wk : worker_take(w)
  \/ \E w \in DOMAIN wk, response \in Responses : worker_connect(w, response)
  \/ \E w \in DOMAIN wk : worker_chunk(w, FALSE)
  \/ \E w \in DOMAIN wk : worker_eof(w)
  \/ \E w \in DOMAIN wk : worker_stop_close(w, TRUE)
  \/ \E w \in DOMAIN wk : worker_stop_exit(w)

SpecAdmit == InitPair /\ [][NextAdmit]_vars

\* One task with any title and any filename, from the caller or from the
\* server, downloaded by one worker.
NextPath ==
  \/ \E anime_title \in Names, filename \in Names \cup {<<>>} :
       tasks = <<>> /\ add_task(PathRequest(anime_title, filename))
  \/ start
  \/ \E w \in DOMAIN wk : worker_take(w)
  \/ \E w \in DOMAIN wk, name \in Names \cup {<<>>} :
       worker_connect(w, PathResponse(name))
  \/ \E w \in DOMAIN wk : worker_chunk(w, FALSE)
  \/ \E w \in DOMAIN wk : worker_eof(w)
  \/ \E w \in DOMAIN wk : worker_error(w)

SpecPath == InitFIFO /\ [][NextPath]_vars

\* The running pool under fair scheduling: a worker coroutine that can run
\* is eventually run by the event loop, and the server eventually answers,
\* sends a chunk, ends the stream or fails (every transfer is finite).
WorkerStep(w) ==
  /\ w \in DOMAIN wk
  /\ \/ worker_take(w)
     \/ \E response \in Responses : worker_connect(w, response)
     \/ \E publish \in BOOLEAN : worker_chunk(w, publish)
     \/ worker_eof(w)
     \/ worker_error(w)
     \/ \E closed \in BOOLEAN : worker_stop_close(w, closed)
     \/ worker_stop_exit(w)

SpecLive ==
  Init /\ [][NextPool]_vars /\ \A w \in 1..MaxSpawn : WF_vars(WorkerStep(w))

\* The worker of a pool that is started and kept running, under the same
\* fair scheduling: requests for one episode are added, pending or active
\* tasks are cancelled, and every transfer completes, fails or is stopped.
SurviveStep(w) ==
  /\ w \in DOMAIN wk
  /\ \/ worker_take(w)
     \/ \E response \in Responses : worker_connect(w, response)
     \/ worker_chunk(w, FALSE)
     \/ worker_eof(w)
     \/ worker_error(w)
     \/ worker_stop_close(w, TRUE)
     \/ worker_stop_exit(w)
NextSurvive ==
  \/ \E req \in Requests :
       req.url = "u1" /\ Len(tasks) < PoolTasks /\ add_task(req)
  \/ start
  \/ \E task_id \in 1..Len(tasks) : cancel_task(task_id)
  \/ \E w \in DOMAIN wk : SurviveStep(w)
SpecSurvive ==
  InitFIFO /\ [][NextSurvive]_vars
  /\ \A w \in 1..MaxSpawn : WF_vars(SurviveStep(w))

\* ================================================================= claims
InQueue(ref) == ref \in SeqToSet(queue)
InActive(ref) == ref \in ActiveRefs
InCompleted(ref) == ref \in SeqToSet(completed_tasks)
InFailed(ref) == ref \in SeqToSet(failed_tasks)
Collections(ref) ==
  (IF InQueue(ref) THEN 1 ELSE 0) + (IF InActive(ref) THEN 1 ELSE 0)
  + (IF InCompleted(ref) THEN 1 ELSE 0) + (IF InFailed(ref) THEN 1 ELSE 0)
HeldByWorker(ref) == \E w \in DOMAIN wk : wk[w].pc # "done" /\ wk[w].task = ref

\* C1: every task that was enqueued and not removed by retry_failed or
\* clear_completed is in exactly one of the pending queue, active_tasks,
\* completed_tasks and failed_tasks, at every suspension point.
C1_ExactlyOneCollection ==
  \A ref \in Refs \ removed : Collections(ref) = 1

\* C2: once a task's status is completed, stopped or failed, no step of any
\* operation changes it.
C2_TerminalStatusFinal ==
  [][\A ref \in DOMAIN tasks :
       tasks[ref].status \in Terminal => tasks'[ref].status = tasks[ref].status]_vars

\* C3: a task that cancel_task marked (status stopping: it was in the active
\* set and cancel_task returned True) goes to stopped and nowhere else: it
\* never reaches completed, whatever point of the transfer the cancel came at.
C3_CancelledActiveTaskStops ==
  [][\A ref \in DOMAIN tasks :
       tasks[ref].status = "stopping" => tasks'[ref].status # "completed"]_vars

CancelledBeforeStarting(ref) ==
  tasks[ref].error = "Cancelled before starting"
PendingWithId(task_id) == {ref \in SeqToSet(queue) : tasks[ref].id = task_id}

\* C4: cancel_task(id) on a task in the pending queue removes exactly that
\* task (the queue is one shorter, the others keep their order), appends one
\* entry for it to failed_tasks with status stopped and cause "Cancelled
\* before starting", changes no other task and returns True; and a task so
\* cancelled is never started by a worker nor put back in the queue.
C4_CancelPendingStep ==
  \A task_id \in 0..Len(tasks) :
    (cancel_task(task_id) /\ task_id \notin DOMAIN active_tasks
       /\ PendingWithId(task_id) # {})
    => \E ref \in PendingWithId(task_id) :
         /\ cancel_task_result(task_id)
         /\ Len(queue') = Len(queue) - 1
         /\ queue' = SelectSeq(queue, LAMBDA r : r # ref)
         /\ failed_tasks' = Append(failed_tasks, ref)
         /\ tasks'[ref] = [tasks[ref] EXCEPT !.status = "stopped",
                                             !.error = "Cancelled before starting"]
         /\ \A other \in DOMAIN tasks \ {ref} : tasks'[other] = tasks[other]
C4_CancelledNeverStarts ==
  \A ref \in Refs :
    CancelledBeforeStarting(ref)
      => /\ ~tasks[ref].started_at
         /\ tasks[ref].status = "stopped"
         /\ ~InQueue(ref) /\ ~InActive(ref) /\ ~HeldByWorker(ref)
C5_RetryFailedStep ==
  retry_failed =>
    LET n == Len(failed_tasks)
        old == Len(tasks)
    IN  /\ retry_failed_result = n
        /\ failed_tasks' = <<>>
        /\ Len(tasks') = old + n
        /\ queue' = queue \o [i \in 1..n |-> old + i]
        /\ \A ref \in DOMAIN tasks : tasks'[ref] = tasks[ref]
        /\ \A i \in 1..n :
             LET new == tasks'[old + i]
                 orig == tasks[failed_tasks[i]]
             IN  /\ new.status = "pending"
                 /\ new.progress = 0
                 /\ new.downloaded_bytes = 0 /\ new.total_bytes = 0
                 /\ new.error = None /\ ~new.started_at
                 /\ new.url = orig.url /\ new.filename = orig.filename
                 /\ new.anime_title = orig.anime_title
                 /\ new.episode = orig.episode
                 /\ new.resolution = orig.resolution
                 /\ \A ref \in DOMAIN tasks' \ {old + i} :
                      tasks'[ref].id # new.id
C5_RetryFailed == [][C5_RetryFailedStep]_vars

\* a retry has replaced a task that had made progress and whose filename
\* the server had overridden
C5_Witness ==
  /\ failed_tasks = <<>>
  /\ \E orig \in removed, new \in SeqToSet(queue) :
       /\ tasks[orig].status \in {"failed", "stopped"}
       /\ tasks[orig].downloaded_bytes > 0
       /\ new > orig
       /\ tasks[new].filename = tasks[orig].filename
       /\ tasks[new].filename = _sanitize_filename(<<"s", "/", "v">>)
       /\ tasks[new].downloaded_bytes = 0

\* C8: when stop() returns, every task that was in flight when stop() was
\* called has left the active set and has status stopped in failed_tasks
\* (unless retry_failed has taken it out of failed_tasks since).
C8_StopReturnsWithNothingInFlight ==
  [][stop_return =>
       \A ref \in stopper.inflight :
         /\ ~InActive(ref)'
         /\ tasks'[ref].status = "stopped"
         /\ InFailed(ref)' \/ ref \in removed']_vars

\* C9: every status change of a task is followed by a call of every
\* registered progress callback with that task: once no coroutine is working
\* on a task any more, each callback has been called with its current status.
C9_EveryStatusChangePublished ==
  \A ref \in Refs :
    (~HeldByWorker(ref) /\ ~(adder.on /\ adder.task = ref))
      => \A c \in SeqToSet(_progress_callbacks) :
           delivered[c][ref] = tasks[ref].status

\* C10: the number of tasks in the active set never exceeds the worker count
\* the pool is started with (stated for the states in which no stop() call is
\* still waiting for its workers).
C10_ActiveWithinWorkerCount ==
  ~stopper.on => Cardinality(DOMAIN active_tasks) <= max_workers

\* C6: with one worker and no cancel or retry, tasks become terminal in the
\* order add_task enqueued them: when a task has left the pending state,
\* every task enqueued before it is terminal and in its history list.
C6_FifoOrder ==
  \A a, b \in Refs :
    (a < b /\ tasks[b].status # "pending")
      => /\ tasks[a].status \in Terminal
         /\ InCompleted(a) \/ InFailed(a)
         /\ ~InActive(a) /\ ~InQueue(a)

\* three tasks were enqueued and served by the one worker: the first
\* failed, the second completed, the third is being downloaded
C6_Witness ==
  /\ Len(tasks) = 3
  /\ tasks[1].status = "failed" /\ tasks[1].downloaded_bytes = 0
  /\ tasks[2].status = "completed"
  /\ tasks[3].status = "downloading"
  /\ failed_tasks = <<1>> /\ completed_tasks = <<2>>

Settled(ref) ==
  /\ ref \in Refs
  /\ tasks[ref].status \in Terminal
  /\ ~InQueue(ref) /\ ~InActive(ref)

\* C7: while the pool is running, under fair scheduling, every task in the
\* pending queue eventually has a terminal status and is neither in the
\* queue nor in the active set.
C7_EveryTaskSettles ==
  \A ref \in 1..PoolTasks :
    [](( ref \in Refs /\ _running /\ InQueue(ref)) => <>Settled(ref))

\* C11: get_status() is a pure read: the step changes nothing (the queue
\* holds the same tasks in the same order, no task field and no collection
\* differs), and what it reports as pending is the queue, head first.
C11_GetStatusStep == get_status => UNCHANGED vars
C11_GetStatusReportsQueue ==
  /\ get_status_result.pending_count = Len(queue)
  /\ get_status_result.pending = [i \in DOMAIN queue |-> _task_to_dict(tasks[queue[i]])]
C11_GetStatusPureRead ==
  [][C11_GetStatusStep]_vars /\ []C11_GetStatusReportsQueue

\* status is polled with two tasks pending behind one being transferred
C11_Witness ==
  /\ Len(queue) >= 2 /\ queue[1] < queue[2]
  /\ \E w \in DOMAIN wk : wk[w].pc = "read" /\ InActive(wk[w].task)
  /\ get_status_result.active_count = 1

\* C12: for every task, once total_bytes > 0, downloaded_bytes <= total_bytes,
\* and a completed task whose total_bytes > 0 has downloaded_bytes =
\* total_bytes.
C12_BytesWithinTotal ==
  \A ref \in Refs :
    tasks[ref].total_bytes > 0
      => /\ tasks[ref].downloaded_bytes <= tasks[ref].total_bytes
         /\ tasks[ref].status = "completed"
              => tasks[ref].downloaded_bytes = tasks[ref].total_bytes

\* C13: the completed and failed history lists are bounded: each holds at
\* most N entries (N = 10, the number get_status reports), whatever the
\* number of finished tasks.
C13_HistoryBounded ==
  /\ Len(completed_tasks) <= HistoryShown
  /\ Len(failed_tasks) <= HistoryShown

\* a plain handler raised, or the send to a websocket raised
SomeSubscriberRaised(e) ==
  \/ \E c \in BusCallbacks \ {"ws"} : e \in bus.raised[c]
  \/ \E ws \in Sockets : e \in bus.send_failed[ws]

\* C14: when a subscriber raises during a publish, every other registered
\* subscriber still receives the event: once _notify_progress has returned
\* to the publisher, every subscribed handler was called with it and every
\* websocket that was connected when the broadcast began, and is still there
\* and sound, was sent it.
C14_OthersStillReceive ==
  \A e \in bus.returned :
    SomeSubscriberRaised(e)
      => /\ \A c \in SeqToSet(_progress_callbacks) : e \in bus.invoked[c]
         /\ \A ws \in bus.audience[e] \ (bus.broken \cup bus.gone) :
              e \in bus.sent[ws]

\* C15: a subscriber that failed during a publish is pruned: once that
\* publish has returned it is no longer subscribed, and it is not invoked on
\* any later publish.
C15_FailedSubscriberPruned ==
  /\ \A c \in BusCallbacks : \A e \in bus.raised[c] :
       /\ e \in bus.returned => c \notin SeqToSet(_progress_callbacks)
       /\ \A later \in bus.invoked[c] : later <= e
  /\ \A ws \in Sockets : \A e \in bus.send_failed[ws] :
       /\ e \in bus.returned => ws \notin connected_websockets
       /\ \A later \in bus.sent[ws] \cup bus.send_failed[ws] : later <= e

\* C16: add_task creates a task with an id no earlier task has and status
\* pending, appends it at the tail of the queue, calls each subscribed
\* handler exactly once with it, and returns without waiting for a worker:
\* its continuation can always run, whether or not the pool is running.
C16_AddTaskStep ==
  \A req \in Requests :
    add_task(req) =>
      LET ref == Len(tasks) + 1
      IN  /\ Len(tasks') = ref
          /\ tasks'[ref].status = "pending"
          /\ tasks'[ref].progress = 0 /\ tasks'[ref].downloaded_bytes = 0
          /\ tasks'[ref].url = req.url
          /\ tasks'[ref].anime_title = req.anime_title
          /\ \A other \in DOMAIN tasks :
               tasks'[other] = tasks[other] /\ tasks[other].id # tasks'[ref].id
          /\ queue' = Append(queue, ref)
          /\ \A c \in Callbacks :
               delivered'[c][ref] =
                 IF c \in SeqToSet(_progress_callbacks) THEN "pending" ELSE "none"
          /\ adder'.on = (_progress_callbacks # <<>>)
C16_AddTaskReturnStep ==
  add_task_notify =>
    IF adder.ni < Len(_progress_callbacks)
      THEN adder'.on
      ELSE delivered' = delivered /\ ~adder'.on
C16_AddTaskNeverWaits == adder.on => ENABLED add_task_notify
C16_AddTask ==
  /\ [][C16_AddTaskStep]_vars
  /\ [][C16_AddTaskReturnStep]_vars
  /\ []C16_AddTaskNeverWaits

\* two add_task calls have returned, each published once as pending, and no
\* worker was ever started
C16_Witness ==
  /\ ~_running /\ wk = <<>>
  /\ ~adder.on
  /\ queue = <<1, 2>>
  /\ _progress_callbacks = <<"ws">>
  /\ delivered["ws"] = <<"pending", "pending">>

Count(list, x) == Cardinality({i \in DOMAIN list : list[i] = x})

\* C17: a task whose transfer raised has status failed, a non-empty error
\* text and exactly one entry in failed_tasks, and it is not put back in the
\* queue or the active set.
C17_TransferErrorRecorded ==
  \A ref \in Refs :
    tasks[ref].status = "failed"
      => /\ tasks[ref].error \notin {None, ""}
         /\ Count(failed_tasks, ref) = 1
         /\ ~InQueue(ref) /\ ~InActive(ref)

\* C18: each task is admitted to one worker only: a task in the queue is
\* there once and was never passed to _download_file (so every dequeue is
\* of a task no worker has had), and no two workers hold the same task.
C18_AdmittedOnce ==
  /\ \A ref \in SeqToSet(queue) :
       /\ Count(queue, ref) = 1
       /\ ~tasks[ref].started_at
       /\ tasks[ref].status = "pending"
       /\ ~HeldByWorker(ref)
  /\ \A w1, w2 \in DOMAIN wk :
       (w1 # w2 /\ wk[w1].task # 0 /\ wk[w1].pc # "done" /\ wk[w2].pc # "done")
         => wk[w1].task # wk[w2].task

\* two workers are transferring two different tasks, one of them marked for
\* cancellation, while a third task waits in the queue
C18_Witness ==
  /\ Len(wk) = 2
  /\ wk[1].pc = "read" /\ wk[2].pc = "read"
  /\ wk[1].task # wk[2].task
  /\ tasks[wk[1].task].status = "stopping"
  /\ queue # <<>>

\* C19: every file written is at <root>/<sanitized title>/<sanitized
\* filename>: its last component has none of the illegal characters and the
\* destination is inside the download root, for every title and filename.
C19_FilesInsideRoot ==
  \A path \in files :
    /\ \A i \in DOMAIN path[2] : path[2][i] \notin IllegalChars
    /\ Inside(path)

\* the token POSTs of the call, in the order they were sent
Posts == SelectSeq(kwik.requests, LAMBDA x : x.method = "POST")

\* C20: for an embed page with no literal kwik link but an encoded payload
\* that decodes to one, and an intermediate page with a valid payload,
\* extract_download_link returns exactly the Location header of the 302
\* answer to the token POST (and it raises its own error only when no token
\* POST was answered, every attempt having failed before).
C20_ReturnsLocation ==
  kwik.pc = "done" =>
    IF Posts # <<>> /\ Posts[Len(Posts)].response.status_code = 302
    THEN kwik.outcome = Returned(Posts[Len(Posts)].response.location)
    ELSE kwik.outcome.raised = "KwikDecodeError"

\* the call returned after the link hidden in the embed page was rewritten
\* to /f/, one fetch of the intermediate page failed and the token POST,
\* sent with the session cookie, was answered with the second location
C20_Witness ==
  /\ kwik.pc = "done"
  /\ kwik.outcome = Returned(Location2)
  /\ Len(kwik.requests) = 4
  /\ kwik.requests[2].response.status_code = 503
  /\ kwik.requests[3].url = Replace(SubSeq(LinkD, 2, Len(LinkD) - 1),
                                    <<"/", "d", "/">>, <<"/", "f", "/">>)
  /\ kwik.requests[4].cookie = <<"S">>
  /\ kwik.requests[4].token = <<"T", "1">>

\* C21: the resolver returns a URL only if the last exchange of the call,
\* the token POST of the final attempt, was answered with status 302 and a
\* Location header, and the URL returned is that Location; a POST answered
\* with any other status (200, 301, 303, 307, 4xx, 5xx) yields no URL.
C21_OnlyRedirect ==
  kwik.pc = "done" /\ kwik.outcome.raised = None =>
    /\ kwik.last.method = "POST"
    /\ kwik.last.response.raised = None
    /\ kwik.last.response.status_code = 302
    /\ kwik.last.response.location # <<>>
    /\ kwik.outcome.value = kwik.last.response.location

\* a URL was returned by the third attempt of decode_kwik_page, after a
\* token POST that did not get through
C21_Witness ==
  /\ kwik.pc = "done"
  /\ kwik.outcome = Returned(Location1)
  /\ kwik.attempts = 3
  /\ kwik.posts = 2

\* C22: when the token POST is answered with a status other than 302, the
\* resolver goes back to fetching the intermediate page as long as attempts
\* are left: a call ends on such an answer only when its budget is used up.
C22_RetriesAfterPost ==
  /\ kwik.pc = "done"
  /\ kwik.last.method = "POST"
  /\ kwik.last.response.raised = None
  /\ kwik.last.response.status_code # 302
  => kwik.retries <= 1

ExceededRetryLimit ==
  KwikDecodeError("Exceeded retry limit for Kwik decode")

\* C23: when the intermediate page lacks the call expression, or the text
\* it decodes to lacks the form action or the token value, decode_kwik_page
\* fetches the page again and processes it anew; it processes the page at
\* most 5 times, and when the fifth attempt fails in this way the call ends
\* with KwikDecodeError "Exceeded retry limit": there is no sixth attempt.
C23_FiveAttempts ==
  /\ [](/\ kwik.attempts <= KwikRetries
        /\ kwik.misses = KwikRetries =>
              kwik.pc = "done" /\ kwik.outcome = ExceededRetryLimit
        /\ kwik.pc = "done" /\ kwik.outcome = ExceededRetryLimit =>
              kwik.attempts = KwikRetries)
  /\ [][kwik'.misses = kwik.misses + 1 =>
         IF kwik.attempts < KwikRetries
         THEN /\ kwik'.pc = "page"
              /\ kwik'.kwik_url = kwik.kwik_url
              /\ kwik'.attempts = kwik.attempts + 1
              /\ kwik'.pages = kwik.pages + 1
         ELSE /\ kwik'.pc = "done"
              /\ kwik'.outcome = ExceededRetryLimit]_vars

\* five attempts, each ended by a page without the pattern, then the error
C23_Witness ==
  /\ kwik.pc = "done"
  /\ kwik.misses = KwikRetries
  /\ kwik.pages = KwikRetries
  /\ kwik.outcome = ExceededRetryLimit

\* C24: every call of extract_download_link ends, returning or raising,
\* after at most 3 GETs of the embed page and 5 attempts of at most 3 GETs
\* of the intermediate page and 1 token POST each, whatever the site
\* answers and whichever requests fail.
C24_Terminates ==
  /\ [](/\ kwik.gets <= FetchRetries
        /\ kwik.attempts <= KwikRetries
        /\ kwik.pages <= kwik.attempts * FetchRetries
        /\ kwik.posts <= kwik.attempts)
  /\ (kwik.pc = "embed" ~> kwik.pc = "done")

\* a call that ended after the most requests it can send
C24_Witness ==
  /\ kwik.pc = "done"
  /\ kwik.gets = FetchRetries
  /\ kwik.pages = KwikRetries * FetchRetries
  /\ kwik.posts = KwikRetries

\* C25: extract_download_link either returns a URL or raises
\* KwikDecodeError; no exception of another type reaches the caller.
C25_OnlyKwikDecodeError ==
  kwik.pc = "done" => kwik.outcome.raised \in {None, "KwikDecodeError"}

\* the 200 answers to the embed GET whose page holds no literal kwik link
\* and either no call expression or one that decodes to a text without link
LacksLink ==
  {response \in SiteEmbedAnswers :
     /\ response.raised = None
     /\ response.status_code = 200
     /\ LET clean_text == CleanText(response.text)
            encoded_match == re_search(EmbedPayloadPattern, clean_text)
            decoded == DecodeMatch(encoded_match)
        IN  /\ ~re_search(KwikLinkPattern, clean_text).found
            /\ \/ ~encoded_match.found
               \/ /\ decoded.raised = None
                  /\ ~re_search(KwikLinkPattern, decoded.value).found}

\* C26: when the embed page holds neither a literal kwik link nor a call
\* expression, or the decoded payload holds no kwik link, the call fails at
\* once with KwikDecodeError: the embed page is not fetched again and no
\* request is sent to the intermediate host.
C26_FailsAtOnce ==
  [][kwik.pc = "embed" /\ kwik'.last.response \in LacksLink =>
       /\ kwik'.pc = "done"
       /\ kwik'.outcome.raised = "KwikDecodeError"
       /\ kwik'.gets = kwik.gets + 1
       /\ kwik'.attempts = 0 /\ kwik'.pages = 0 /\ kwik'.posts = 0]_vars

\* the second GET of the embed page, after one that failed, brought a
\* script that decodes to a text without link; the call ended there
C26_Witness ==
  /\ kwik.pc = "done"
  /\ kwik.gets = 2
  /\ kwik.last.response = Response(200, PackedNoLink, <<>>, <<>>)
  /\ kwik.last.response \in LacksLink
  /\ kwik.pages = 0

\* the text holds `part`
Holds(text, part) ==
  \E i \in 1..(Len(text) - Len(part) + 1) :
    SubSeq(text, i, i + Len(part) - 1) = part

\* C27: the link to the intermediate page that the resolver goes on to
\* fetch holds no /d/: every /d/ of the link found on the embed page is
\* rewritten to /f/, whether the link stood on the page literally or was
\* recovered by decoding, by the web resolver and by the CLI resolver.
C27_NoDSegment ==
  /\ codec.done
  /\ codec.fn \in {"extract_download_link", "extract_kwik_link"}
  /\ codec.out.raised = None
  => ~Holds(codec.out.value, <<"/", "d", "/">>)

RECURSIVE StripZeros(_)
\* the numeral without its leading zero digits (the last digit stays)
StripZeros(numeral) ==
  IF Len(numeral) > 1 /\ Head(numeral) = "0" THEN StripZeros(Tail(numeral))
  ELSE numeral

\* str() of what the conversion returned: a number, or for the value 0 of
\* _0xe16c the text it returned
Rendered(call) ==
  IF call.fn = "_0xe16c" /\ ToDecimal(call.args[1], call.args[2], 0) = 0
  THEN call.out.value
  ELSE Str(call.out.value)

\* C28: for every base b of 2..64 and every non-empty numeral s over the
\* first b characters of the alphabet, converting s from base b to base b
\* gives back s without its leading zeros: _base_convert(s, b, b), and
\* _0xe16c(s, b, b), rendered as a string.
C28_RoundTrip ==
  codec.done /\ codec.fn \in {"_base_convert", "_0xe16c"} =>
    /\ codec.out.raised = None
    /\ Rendered(codec) = StripZeros(codec.args[1])

\* C29: decode_obfuscated_js (and decode_js_style) never raises: for every
\* encoded text, key, offset and base, malformed ones included (no
\* delimiter in the text, a base that is no index of the key, a segment
\* whose value is below the offset, a segment of zeros), it returns a text.
C29_NeverRaises ==
  codec.done /\ codec.fn \in {"decode_obfuscated_js", "decode_js_style"} =>
    codec.out.raised = None

\* the worker coroutines that have not returned
LiveWorkers == {w \in DOMAIN wk : wk[w].pc # "done"}
\* the step in which worker w is through with a task that did not complete:
\* the transfer failed, or cancel_task stopped it
EndsTask(w) ==
  /\ wk[w].task # 0
  /\ wk'[w].task = 0
  /\ tasks'[wk[w].task].status # "completed"

\* worker w is suspended in its wait on the queue
Waiting(w) == IF w \in DOMAIN wk THEN wk[w].pc = "idle" ELSE FALSE

\* C30: a worker survives every task outcome.  While the pool is running
\* the number of live workers is max_workers; the step in which a worker's
\* task ends as failed or stopped takes that worker back to the wait on the
\* queue; and a worker waiting there while tasks are pending goes on to
\* execute one (unless the others, or cancel_task, empty the queue first).
C30_WorkerSurvives ==
  /\ [](_running => Cardinality(LiveWorkers) = max_workers)
  /\ [][\A w \in DOMAIN wk : EndsTask(w) => wk'[w].pc = "idle"]_vars
  /\ \A w \in 1..MaxSpawn :
       (Waiting(w) /\ queue # <<>>) ~> (queue = <<>> \/ ~Waiting(w))

\* a worker is transferring its third task after the first failed and the
\* second was stopped by cancel_task
C30_Witness ==
  \E w \in DOMAIN wk :
    /\ _running
    /\ wk[w].pc = "read"
    /\ wk[w].task = 3
    /\ Len(failed_tasks) = 2
    /\ tasks[1].status = "failed"
    /\ tasks[2].status = "stopped"
    /\ tasks[2].error = "Download stopped by user"

\* the kwik_session value each Set-Cookie header of the site carries
SessionOf(set_cookie) ==
  IF set_cookie = CookieS THEN <<"S">>
  ELSE IF set_cookie = CookieR THEN <<"R">>
  ELSE <<>>

\* C31: the kwik_session cookie sent with a token POST is the value of the
\* Set-Cookie header of the intermediate page fetched just before it, in
\* the same attempt, never that of an earlier attempt; it is the empty
\* text when the header carries no kwik_session, and a page without the
\* cookie is followed by the token POST like any other.
C31_CookieOfAttempt ==
  \A i \in DOMAIN kwik.requests :
    LET x == kwik.requests[i]
    IN  /\ x.method = "POST" =>
             /\ i > 1
             /\ kwik.requests[i - 1].method = "GET"
             /\ kwik.requests[i - 1].response \in CookieAnswers
             /\ x.cookie = SessionOf(kwik.requests[i - 1].response.set_cookie)
        /\ x.response \in CookieAnswers =>
             IF i = Len(kwik.requests) THEN kwik.pc = "post"
             ELSE kwik.requests[i + 1].method = "POST"

\* the first attempt got the cookie S and its POST failed; the second got a
\* page without kwik_session and its POST, sent with an empty cookie,
\* brought the link
C31_Witness ==
  /\ kwik.pc = "done"
  /\ kwik.outcome.raised = None
  /\ Len(kwik.requests) = 5
  /\ kwik.requests[2].response.set_cookie = CookieS
  /\ kwik.requests[3].cookie = <<"S">>
  /\ kwik.requests[3].response = TransportError
  /\ kwik.requests[4].response.set_cookie = CookieOther
  /\ kwik.requests[5].cookie = <<>>

\* C32: the token POST goes to the form action found in the decoded text,
\* with the token found there as _token, and its Referer is the
\* intermediate link that was fetched, not the form action.
C32_PostHeaders ==
  kwik.last.method = "POST" =>
    /\ kwik.last.url = kwik.form_action
    /\ kwik.last.token = kwik.token
    /\ kwik.last.referer = kwik.kwik_url

\* ------------------------------------------- get_episode_links_batch
\* get_episode_links_batch (animepahe.py L460-539) gathers one
\* process_episode per episode; each one reaches get_direct_download_link
\* (L441-458), which opens a client of its own and calls
\* extract_download_link with it. The KwikPahe object they share has no
\* field that is written after __init__ (kwik.py L19-22).
get_episode_links_batch(n) ==
  /\ resolutions = <<>>
  /\ resolutions' =
       [r \in 1..n |-> [NoCallUnlogged EXCEPT !.pc = "embed",
                                              !.pahe_embed_url = EmbedUrl]]
  /\ UNCHANGED <<manager, _progress_callbacks, web, kwik, codec>>

\* what the site may answer to the request a resolution is waiting on
BatchAnswers(pc) ==
  IF pc = "embed" THEN {Response(200, Packed(LinkD, Key20, 10, 5), <<>>, <<>>)}
  ELSE IF pc = "page"
  THEN {response \in CookieAnswers : response.set_cookie # <<>>}
  ELSE IF pc = "post"
  THEN {Response(302, <<>>, <<>>, Location1), TransportError}
  ELSE {}

\* (the session cookie kept where every resolution reads it)
resolution_answered_shared(r, response) ==
  /\ r \in DOMAIN resolutions
  /\ response \in BatchAnswers(resolutions[r].pc)
  /\ LET c == resolutions[r]
         k == IF c.pc = "embed" THEN EmbedAnswered(c, response)
              ELSE IF c.pc = "page" THEN PageAnswered(c, response)
              ELSE PostAnswered(c, response)
     IN  resolutions' =
           [q \in DOMAIN resolutions |->
              IF q = r THEN k
              ELSE [resolutions[q] EXCEPT !.session_cookie = k.session_cookie]]
  /\ UNCHANGED <<manager, _progress_callbacks, web, kwik, codec>>

\* the request resolution r is waiting on is answered: the step of
\* extract_download_link, decode_kwik_page or fetch_direct_link it resumes
\* works on the locals of r's own coroutine (kwik.py L179-182, L215)
resolution_answered(r, response) ==
  /\ r \in DOMAIN resolutions
  /\ response \in BatchAnswers(resolutions[r].pc)
  /\ LET c == resolutions[r]
     IN  resolutions' =
           [resolutions EXCEPT ![r] =
              IF c.pc = "embed" THEN EmbedAnswered(c, response)
              ELSE IF c.pc = "page" THEN PageAnswered(c, response)
              ELSE PostAnswered(c, response)]
  /\ UNCHANGED <<manager, _progress_callbacks, web, kwik, codec>>

NextBatch ==
  \/ \E n \in 1..MaxResolutions : get_episode_links_batch(n)
  \/ \E r \in 1..MaxResolutions :
       \E response \in CookieAnswers \cup PostAnswers \cup EmbedAnswers
                         \cup {TransportError} :
         resolution_answered(r, response)

SpecBatch == Init /\ [][NextBatch]_vars

\* C33: among the resolutions of one batch, the cookie a resolution sends
\* with its token POST is the kwik_session of the page that same
\* resolution received last, whatever the others received in between, and
\* a step of one resolution changes nothing of any other.
C33_OwnCookie ==
  [][\A r \in DOMAIN resolutions :
       /\ resolutions'[r].posts = resolutions[r].posts + 1 =>
            /\ resolutions[r].last.response \in CookieAnswers
            /\ resolutions'[r].last.cookie =
                 SessionOf(resolutions[r].last.response.set_cookie)
       /\ resolutions'[r] # resolutions[r] =>
            \A q \in DOMAIN resolutions \ {r} :
              resolutions'[q] = resolutions[q]]_vars

\* two resolutions wait for the answer to their token POSTs at the same
\* time, one having received the cookie S and the other the cookie R, and
\* the first has already sent S once while the second held R
C33_Witness ==
  /\ DOMAIN resolutions = {1, 2}
  /\ resolutions[1].pc = "post"
  /\ resolutions[2].pc = "post"
  /\ resolutions[1].last.response.set_cookie = CookieS
  /\ resolutions[2].last.response.set_cookie = CookieR
  /\ resolutions[1].session_cookie = <<"S">>
  /\ resolutions[2].session_cookie = <<"R">>
  /\ resolutions[1].posts = 1

\* ------------------------------------------------ decoding packed texts
\* texts as the site packs them, and the same texts cut before their last
\* delimiter
PlainTexts == {<<"a">>, <<"<", "a">>, <<"a", "/", ">">>}
PackedTexts ==
  LET whole == {Encode(plain, Key4, offset, 3) :
                  plain \in PlainTexts, offset \in {0, 1}}
  IN  whole \cup {SubSeq(encoded, 1, Len(encoded) - 1) : encoded \in whole}

\* the decoder called on packed texts and on short texts of key and other
\* characters
DecodeCalls ==
  {Call("decode_obfuscated_js", <<encoded, Key4, offset, base>>) :
     encoded \in Encodings \cup PackedTexts, offset \in {0, 1}, base \in 2..4}

InitDecode ==
  /\ tasks = <<>>
  /\ queue = <<>>
  /\ active_tasks = EmptyDict
  /\ completed_tasks = <<>>
  /\ failed_tasks = <<>>
  /\ _running = FALSE
  /\ _workers = <<>>
  /\ max_workers = 1
  /\ _progress_callbacks = <<>>
  /\ wk = <<>>
  /\ adder = NoAdder
  /\ stopper = NoStopper
  /\ files = {}
  /\ delivered = [c \in Callbacks |-> <<>>]
  /\ removed = {}
  /\ connected_websockets = {}
  /\ bus = NoBus
  /\ kwik = NoCall
  /\ codec \in DecodeCalls
  /\ resolutions = <<>>

SpecDecode == InitDecode /\ [][NextCodec]_vars

RECURSIVE SegmentsOf(_, _)
\* the texts between the delimiters of encoded: one before each delimiter,
\* and what follows the last delimiter when that is not empty
SegmentsOf(encoded, delimiter) ==
  IF encoded = <<>> THEN <<>>
  ELSE IF \E i \in DOMAIN encoded : encoded[i] = delimiter
  THEN LET i == CHOOSE i \in DOMAIN encoded :
                  /\ encoded[i] = delimiter
                  /\ \A k \in 1..(i - 1) : encoded[k] # delimiter
       IN  <<SubSeq(encoded, 1, i - 1)>>
           \o SegmentsOf(SubSeq(encoded, i + 1, Len(encoded)), delimiter)
  ELSE <<encoded>>

\* the segments that end with a delimiter
Terminated(encoded, delimiter) ==
  LET segments == SegmentsOf(encoded, delimiter)
  IN  IF encoded # <<>> /\ encoded[Len(encoded)] # delimiter
      THEN SubSeq(segments, 1, Len(segments) - 1)
      ELSE segments

RECURSIVE ValueOf(_, _, _)
\* the number a segment writes in the given radix, each character of the
\* key standing for its index when that is a digit of the radix and any
\* other character for nothing (for keys of at most ten characters, none a
\* decimal digit)
ValueOf(segment, key, radix) ==
  IF segment = <<>> THEN 0
  ELSE LET j == Find(key, segment[Len(segment)])
       IN  (IF j \in 0..(radix - 1) THEN j ELSE 0)
           + radix * ValueOf(SubSeq(segment, 1, Len(segment) - 1), key, radix)

\* the characters of the segments, each read in the radix
CharsOf(segments, key, offset, radix) ==
  [i \in DOMAIN segments |-> Chr(ValueOf(segments[i], key, radix) - offset)]

\* a decoder call that was made with a base inside the key
Decoded ==
  /\ codec.fn = "decode_obfuscated_js"
  /\ codec.done
  /\ codec.args[4] < Len(codec.args[2])

\* C34 (as stated): the decoded text has one character per
\* delimiter-terminated segment, and its code point is the substituted
\* segment read as a base-10 numeral, minus offset; checked on the encoded
\* texts whose every segment ends with the delimiter.
C34_Base10 ==
  LET encoded == codec.args[1]
      delimiter == codec.args[2][codec.args[4] + 1]
  IN  /\ Decoded
      /\ codec.out.raised = None
      /\ Terminated(encoded, delimiter) = SegmentsOf(encoded, delimiter)
      => codec.out.value = CharsOf(Terminated(encoded, delimiter),
                                   codec.args[2], codec.args[3], 10)

\* C34 (amended): the decoded text has one character per segment, the
\* delimiters themselves giving none and a last segment without delimiter
\* giving one too; each code point is the substituted segment read as a
\* numeral of the call's base, minus offset, and the call raises ValueError
\* exactly when one of these is negative.
C34_OwnBase ==
  Decoded =>
    LET key == codec.args[2]
        offset == codec.args[3]
        base == codec.args[4]
        segments == SegmentsOf(codec.args[1], key[base + 1])
    IN  IF \A i \in DOMAIN segments : ValueOf(segments[i], key, base) >= offset
        THEN codec.out = Returned(CharsOf(segments, key, offset, base))
        ELSE codec.out.raised = "ValueError"

\* a text of two characters packed in base 3 with offset 1 was decoded
\* back to itself
C34_Witness ==
  /\ Decoded
  /\ codec.args = <<Encode(<<"<", "a">>, Key4, 1, 3), Key4, 1, 3>>
  /\ codec.out = Returned(<<"<", "a">>)

\* ------------------------------------------------ the result of cancel_task
\* the tasks of the history lists that carry the id
InHistoryWithId(task_id) ==
  {ref \in SeqToSet(completed_tasks) \cup SeqToSet(failed_tasks) :
     tasks[ref].id = task_id}

\* C35: cancel_task(id) returns True exactly when a task with that id is in
\* the active set or in the pending queue; for an unknown id or the id of a
\* task already in completed or failed history it returns False and
\* changes no task, no collection and not the order of the queue.
C35_CancelResult ==
  [][\A task_id \in 0..(MaxTasks + 1) :
       cancel_task(task_id) =>
         /\ cancel_task_result(task_id) <=>
              \/ task_id \in DOMAIN active_tasks
              \/ PendingWithId(task_id) # {}
         /\ \/ InHistoryWithId(task_id) # {}
            \/ \A ref \in DOMAIN tasks : tasks[ref].id # task_id
            => /\ ~cancel_task_result(task_id)
               /\ UNCHANGED <<tasks, queue, active_tasks, completed_tasks,
                              failed_tasks>>]_vars

\* C36: stop() cancels the pending downloads: when it returns, no task
\* that was waiting in the pending queue is still pending or still queued.
C36_StopCancelsPending ==
  [][stop_return \/ (stop /\ _workers = <<>>) =>
       \A ref \in SeqToSet(queue) :
         /\ tasks'[ref].status # "pending"
         /\ ref \notin SeqToSet(queue')]_vars

\* how many entries of the history lists carry the id
HistoryEntries(task_id) ==
  Cardinality({i \in DOMAIN completed_tasks :
                 tasks[completed_tasks[i]].id = task_id})
  + Cardinality({i \in DOMAIN failed_tasks :
                   tasks[failed_tasks[i]].id = task_id})

\* C37: no task appears more than once in the history lists: across
\* completed_tasks and failed_tasks each task id occurs at most once,
\* whatever the interleaving of the stopping branch with stop() or with an
\* error raised while the response and the file are closed.
C37_OnceInHistory ==
  \A ref \in DOMAIN tasks : HistoryEntries(tasks[ref].id) <= 1

\* ------------------------------------------------------ destination paths
\* worker w has the destination file of its task open (L166-198)
Writing(w) == wk[w].pc \in {"read", "notify_progress", "stop_close"}

\* C38: no two tasks that are active at the same time write to the same
\* destination path, and so the removal of a partial file by one task's
\* cancellation never takes away the file another active task is writing.
C38_OwnDestination ==
  [][/\ \A w1, w2 \in DOMAIN wk :
          (w1 # w2 /\ Writing(w1) /\ Writing(w2))
            => FilePath(tasks[wk[w1].task]) # FilePath(tasks[wk[w2].task])
     /\ \A w \in DOMAIN wk :
          (Writing(w) /\ wk'[w] = wk[w])
            => FilePath(tasks[wk[w].task]) \in files']_vars

\* ------------------------------------------------------ default filenames
\* episode numbers as <<whole part, tenths>>: 1, 1.5, 2 and 2.5
EpisodeNumbers == {<<1, 0>>, <<1, 5>>, <<2, 0>>, <<2, 5>>}

\* requests for episodes of one title at one resolution, none with a
\* filename of its own
EpisodeRequests ==
  {[url |-> "u1", anime_title |-> <<"A">>, episode |-> episode,
    resolution |-> 720, filename |-> None] : episode \in EpisodeNumbers}

NextEpisodes ==
  \/ \E req \in EpisodeRequests : Len(tasks) < PoolTasks /\ add_task(req)
  \/ start
  \/ \E w \in DOMAIN wk : worker_take(w)
  \/ \E w \in DOMAIN wk, response \in Responses : worker_connect(w, response)
  \/ \E w \in DOMAIN wk : worker_chunk(w, FALSE)
  \/ \E w \in DOMAIN wk : worker_eof(w)

SpecEpisodes == InitFIFO /\ [][NextEpisodes]_vars

\* C39: for one title and resolution, two tasks that add_task created
\* without an explicit filename for different episode numbers, such as 1
\* and 1.5, have different default filenames.
C39_DistinctDefaultNames ==
  \A a, b \in SeqToSet(queue) :
    (/\ tasks[a].anime_title = tasks[b].anime_title
     /\ tasks[a].resolution = tasks[b].resolution
     /\ tasks[a].episode # tasks[b].episode)
      => tasks[a].filename # tasks[b].filename

\* ------------------------------------------------------ changed settings
\* a pool of two workers whose max_workers setting is changed while tasks
\* are added and downloaded
NextSettings ==
  \/ \E req \in Requests :
       req.url = "u1" /\ Len(tasks) < PoolTasks /\ add_task(req)
  \/ start
  \/ get_status
  \/ \E k \in 1..MaxSpawn : update_settings(k)
  \/ \E w \in DOMAIN wk : worker_take(w)
  \/ \E w \in DOMAIN wk, response \in Responses : worker_connect(w, response)
  \/ \E w \in DOMAIN wk : worker_chunk(w, FALSE)
  \/ \E w \in DOMAIN wk : worker_eof(w)

SpecSettings == InitPair /\ [][NextSettings]_vars

\* C40: the max_workers value that get_status and the settings endpoint
\* report bounds the real concurrency: also after update_settings changed
\* it while the pool runs, the active set never holds more tasks than that.
C40_SettingBoundsActive ==
  Cardinality(DOMAIN active_tasks) <= max_workers

====
